---- MODULE Spec2Model ----
(***************************************************************************)
(* Model of qx.tool.compiler.Analyser (lib/qx/tool/compiler/Analyser.js):  *)
(* the class database, the staleness check and compile dispatch of         *)
(* getClassInfo, the dependency worklist, the indirect-load lift and the   *)
(* meta phases of analyseClasses.                                          *)
(*                                                                         *)
(* Files are the environment: a source file has an mtime and a content     *)
(* version, the compiled output and the meta file have an mtime (0 = the   *)
(* file does not exist).  The external ClassFile compiler is modelled by   *)
(* what the analyser observes of it: load() succeeds or fails, a           *)
(* successful load writes the output file, writeDbInfo() fills the row.    *)
(***************************************************************************)
EXTENDS Integers, Sequences, FiniteSets, TLC

VARIABLES
  \* ---- environment (file system, library index, clock)
  lib,            \* class names that resolve to a library
  srcMtime,       \* class -> mtime of its source file, 0 = no such file
  srcVer,         \* class -> content version of its source file
  outMtime,       \* class -> mtime of the compiled output file, 0 = absent
  metaFile,       \* class -> meta file on disk, NoMeta = absent
  dbFile,         \* the DB file on disk, NoFile = absent
  now,            \* clock: the mtime given to a file written now
  changes,        \* number of environment changes so far (bounded)
  \* ---- analyser
  db,             \* __db.classInfo: class -> ClassInfo row, NoRow = none
  phase,          \* position of analyseClasses / of an external caller
  classes,        \* __classes: the worklist
  classIndex,     \* classIndex of analyseClasses (entries dispatched)
  pending,        \* classes whose ClassFile.load() is outstanding
  oldInfo,        \* class -> oldDbClassInfo captured by scanFile
  compiledClasses,       \* keys of compiledClasses, in insertion order
  metaFixupDescendants,  \* keys of metaFixupDescendants, in insertion order
  cachedMeta,     \* cachedMeta: class -> meta object, NoMeta = not cached
  mergeIndex,     \* compiled classes already merged by analyzeMeta
  fixupTodo,      \* descendant fixups still chained on p
  toSave,         \* keys of toSave, in insertion order
  saveTodo,       \* saveMetaData calls not yet made
  metaWrittenLog, \* classes whose meta was written in this run
  metaWrites,     \* history: the meta files written in this run, in order
  cbResult,       \* how the callback of analyseClasses was invoked
  callbacks,      \* history: the arguments the run's callback was invoked with
  \* ---- observation (history of the current run)
  events,         \* compilingClass / compiledClass events fired in this run
  logged,         \* names for which ENOCLASSFILE was logged in this run
  enqueuedBy,     \* class -> the class whose dependsOn enqueued it
  outcome,        \* class -> how its getClassInfo call of this run went
  lastCall,       \* inputs and outcome of the latest getClassInfo call
  base,           \* DB and meta files when a repeat run started
  okMtime,        \* history: source mtime at the last successful compile (0: none)
  prev,           \* history: the last run if it completed, and the source mtimes then
  clean,          \* no change since the last run that completed without error
  runs,           \* analyseClasses runs / external calls started (bounded)
  \* ---- registries
  libraries,             \* __libraries: the libraries added, in order
  librariesByNamespace,  \* __librariesByNamespace: namespace -> library
  translations,          \* __translations: id -> Translation object, its read state
  handed,         \* history: the Translation objects callers received, with their state
  \* ---- one updateMetaData call, step by step
  walk,           \* the analyseClassEntities calls in progress, innermost last
  visits          \* class -> analyseClassEntities calls made for its meta

regVars == << libraries, librariesByNamespace, translations, handed, walk, visits >>

vars == << lib, srcMtime, srcVer, outMtime, metaFile, dbFile, now, changes,
           db, phase, classes, classIndex, pending, oldInfo, compiledClasses,
           metaFixupDescendants, cachedMeta, mergeIndex, fixupTodo, toSave,
           saveTodo, metaWrittenLog, metaWrites, cbResult, callbacks,
           events, logged, enqueuedBy, outcome, lastCall, base, regVars, okMtime, prev, clean, runs >>

envVars  == << lib, srcMtime, srcVer, outMtime, metaFile, dbFile, now, changes >>
metaVars == << cachedMeta, mergeIndex, fixupTodo, toSave, saveTodo, metaWrittenLog,
              metaWrites >>

----------------------------------------------------------------------------
(* Bounds *)

MaxTime    == 2   \* mtimes are 1..MaxTime
MaxChanges == 2   \* environment changes (touch, unlink, remove) per behaviour
MaxRuns    == 3   \* analyseClasses runs per behaviour

Classes == {"A", "B", "C"}

\* addClass("A"), addClass("B"): __initialClassesToScan
Seeds == << "A", "B" >>

NoRow  == [kind |-> "none"]
NoMeta == [kind |-> "none"]
NoCall == [kind |-> "none"]
NoBase == [kind |-> "none"]
NoFile == [kind |-> "none"]
NoLibrary == [kind |-> "none"]
NoTranslation == [kind |-> "none"]

\* library.getNamespace() of the libraries, and the locales asked for
Namespaces == {"app", "lib"}
Locales == {"en", "de"}

\* id = locale + ":" + library.getNamespace()
TranslationId(library, locale) == << locale, library.namespace >>
TranslationIds == Locales \X Namespaces
NoDeps == << >>

Dep(n, f) == [name |-> n, flags |-> f]

----------------------------------------------------------------------------
(* The external ClassFile: what load() and writeDbInfo() report for the    *)
(* content of a source file.  A class has a small menu of contents.        *)

NumVariants(c) == CASE c = "A" -> 3 [] c = "B" -> 2 [] OTHER -> 1

Variant(c, v) ==
  CASE c = "A" /\ v = 1 ->
         [ok |-> TRUE, extends |-> "B", implement |-> << "C" >>, include |-> << >>,
          dependsOn |-> << Dep("B", {"load"}), Dep("C", {"construct"}) >>]
    [] c = "A" /\ v = 2 ->      \* does not parse: load() reports an error
         [ok |-> FALSE, extends |-> "", implement |-> << >>, include |-> << >>,
          dependsOn |-> NoDeps]
    [] c = "A" /\ v = 3 ->
         [ok |-> TRUE, extends |-> "", implement |-> << >>, include |-> << >>,
          dependsOn |-> << Dep("B", {"load"}) >>]
    [] c = "B" /\ v = 1 ->
         [ok |-> TRUE, extends |-> "", implement |-> << >>, include |-> << >>,
          dependsOn |-> << Dep("A", {"construct"}) >>]
    [] c = "B" /\ v = 2 ->
         [ok |-> TRUE, extends |-> "", implement |-> << >>, include |-> << "C" >>,
          dependsOn |-> << Dep("C", {"load", "construct"}) >>]
    [] OTHER ->
         [ok |-> TRUE, extends |-> "", implement |-> << >>, include |-> << >>,
          dependsOn |-> << Dep("A", {"runtime"}) >>]

\* scanFile: the minimal row written before the compile
MinimalRow(m) ==
  [mtime |-> m, libraryName |-> "app", extends |-> "", implement |-> << >>,
   include |-> << >>, dependsOn |-> NoDeps, populated |-> FALSE]

\* classFile.writeDbInfo(dbClassInfo)
WriteDbInfo(row, v) ==
  [row EXCEPT !.extends = v.extends, !.implement = v.implement,
              !.include = v.include, !.dependsOn = v.dependsOn,
              !.populated = TRUE]

----------------------------------------------------------------------------
(* The external ClassFile: getOuterClassMeta().  The entity merge is       *)
(* studied on an inheritance graph of its own: an interface I, a mixin M,  *)
(* a class Base and a class Sub extending Base; there the content of a     *)
(* source file is the declaration ClassFile reads from it.  jsdoc and      *)
(* access are left out of the entries: no flag, name or list computed by   *)
(* the merge depends on them.                                              *)

MetaClasses == {"I", "M", "Base", "Sub"}
PropNames   == {"p"}

\* accessorType -> "get" + upname etc. for the property p
AccessorName ==
  [get |-> "getP", is |-> "isP", set |-> "setP", reset |-> "resetP",
   getAsync |-> "getPAsync", isAsync |-> "isPAsync", setAsync |-> "setPAsync"]

AccessorKinds == DOMAIN AccessorName

MemberNames == {"foo"} \cup {AccessorName[k] : k \in AccessorKinds}

NoEntity == [type |-> "none"]
NoInfo   == [kind |-> "none"]

\* an entry of meta.members / meta.properties; an absent key is "", FALSE
\* or the empty list
Entity(t) ==
  [type |-> t, check |-> "", async |-> FALSE, refine |-> FALSE,
   abstract |-> FALSE, mixin |-> FALSE, inherited |-> FALSE,
   overriddenFrom |-> "", appearsIn |-> << >>, property |-> ""]

\* a property declaration: check, async, refine
PropertyDecl(check, async, refine) ==
  [Entity("property") EXCEPT !.check = check, !.async = async, !.refine = refine]

\* the declaration in a source file
Decl(type, interfaces, mixins, superClass, members, prop) ==
  [type |-> type, interfaces |-> interfaces, mixins |-> mixins,
   superClass |-> superClass, members |-> members, prop |-> prop]

\* ClassFile.getOuterClassMeta() for the declaration d of className;
\* compiledFrom notes the mtime of the source it was compiled from
OuterClassMeta(className, d, mtime) ==
  [kind |-> "meta", descendants |-> {}, compiledFrom |-> mtime,
   className |-> className,
   type |-> d.type, superClass |-> d.superClass,
   interfaces |-> d.interfaces, mixins |-> d.mixins,
   members |-> [n \in MemberNames |->
                  IF n \in DOMAIN d.members THEN Entity(d.members[n]) ELSE NoEntity],
   properties |-> [n \in PropNames |-> d.prop],
   abstract |-> FALSE]

----------------------------------------------------------------------------
(* Helpers on sequences used as insertion-ordered key lists *)

SeqToSet(s) == {s[i] : i \in 1..Len(s)}

\* mutant of AddUnique: the name is pushed without the indexOf test
AddUnique_Always(s, x) == Append(s, x)

\* push x unless indexOf finds it
AddUnique(s, x) == IF x \in SeqToSet(s) THEN s ELSE Append(s, x)

RECURSIVE AddAll(_, _)
AddAll(s, xs) == IF xs = << >> THEN s ELSE AddAll(AddUnique(s, Head(xs)), Tail(xs))

DepNames(deps) == [i \in 1..Len(deps) |-> deps[i].name]

----------------------------------------------------------------------------
(* getClassInfo(className, forceScan, cb) *)

\* mutant of ScanFileCached: the row may be newer than the source
ScanFileCached_NotExact(c) ==
  /\ db[c] # NoRow
  /\ db[c].mtime >= srcMtime[c]
  /\ outMtime[c] >= srcMtime[c]

\* mutant of ScanFileCached: any row is returned as it is
ScanFileCached_AnyRow(c) == db[c] # NoRow

\* scanFile(stat, outputStat): the test that returns the cached row
ScanFileCached(c) ==
  /\ db[c] # NoRow
  /\ db[c].mtime = srcMtime[c]
  /\ outMtime[c] >= srcMtime[c]

\* mutant of GetClassInfoOutcome: a missing source file is reported like a
\* missing library
GetClassInfoOutcome_MissingIsNoClass(c, force) ==
  IF c \notin lib \/ srcMtime[c] = 0 THEN "noclass"
  ELSE IF outMtime[c] = 0 \/ force THEN "compile"
  ELSE IF metaFile[c] = NoMeta THEN "compile"
  ELSE IF ScanFileCached(c) THEN "cached"
  ELSE "compile"

\* the path getClassInfo takes for className c
GetClassInfoOutcome(c, force) ==
  IF c \notin lib THEN "noclass"                       \* no library: ENOCLASSFILE
  ELSE IF srcMtime[c] = 0 THEN "staterr"               \* fs.stat(source) fails
  ELSE IF outMtime[c] = 0 \/ force THEN "compile"      \* scanFile(stat)
  ELSE IF metaFile[c] = NoMeta THEN "compile"          \* scanFile(stat)
  ELSE IF ScanFileCached(c) THEN "cached"              \* scanFile(stat, outputStat)
  ELSE "compile"

\* err.code of the error a path passes to cb: ENOCLASSFILE is set on the
\* error made for a name without library, the error of fs.stat is passed on
\* as it is
ErrorCode(o) ==
  IF o = "noclass" THEN "ENOCLASSFILE"
  ELSE IF o = "staterr" THEN "ENOENT"
  ELSE "none"

\* what the call saw, kept for the claims about the staleness oracle
CallRecord(c, force, o) ==
  [cls |-> c, force |-> force, row |-> db[c], inLib |-> c \in lib,
   src |-> srcMtime[c], out |-> outMtime[c], meta |-> metaFile[c] # NoMeta,
   outcome |-> o]

\* mutant of ScanFileCompile: the compile starts without compilingClass
ScanFileCompile_NoEvent(c, force) ==
  /\ oldInfo' = [oldInfo EXCEPT ![c] = db[c]]
  /\ db' = [db EXCEPT ![c] = MinimalRow(srcMtime[c])]
  /\ events' = events
  /\ pending' = pending \cup {c}
  /\ outcome' = [outcome EXCEPT ![c] = "compiling"]
  /\ lastCall' = CallRecord(c, force, "compile")

\* scanFile: snapshot the old row, write the minimal row, fire compilingClass
\* and start ClassFile.load()
ScanFileCompile(c, force) ==
  /\ oldInfo' = [oldInfo EXCEPT ![c] = db[c]]
  /\ db' = [db EXCEPT ![c] = MinimalRow(srcMtime[c])]
  /\ events' = Append(events, << "compilingClass", c >>)
  /\ pending' = pending \cup {c}
  /\ outcome' = [outcome EXCEPT ![c] = "compiling"]
  /\ lastCall' = CallRecord(c, force, "compile")

\* load() succeeded: the output file is written, writeDbInfo, compiledClass
LoadSucceeded(c) ==
  /\ outMtime' = [outMtime EXCEPT ![c] = now]
  /\ db' = [db EXCEPT ![c] = WriteDbInfo(db[c], Variant(c, srcVer[c]))]
  /\ events' = Append(events, << "compiledClass", c >>)
  /\ pending' = pending \ {c}
  /\ outcome' = [outcome EXCEPT ![c] = "compiled"]
  /\ okMtime' = [okMtime EXCEPT ![c] = db[c].mtime]

----------------------------------------------------------------------------
(* analyseClasses: the worklist *)

InRun == phase \in {"scan", "merge", "fixup", "save"}
Idle  == phase \in {"idle", "done", "aborted"}

\* async.whilst test: classIndex < classes.length
WhilstTest == classIndex < Len(classes)

\* mutant of IterateeReady: the entries are dispatched without waiting
IterateeReady_Parallel == TRUE

\* async.whilst calls the iteratee again only from the callback of the
\* previous call, i.e. when no getClassInfo of this run is outstanding
IterateeReady == pending = {}

\* _addRequiredClass for every key of dbClassInfo.dependsOn
AddRequiredClasses(cls, row) == AddAll(cls, DepNames(row.dependsOn))

\* who enqueued the names that AddRequiredClasses appends
NoteEnqueued(c, row) ==
  [n \in Classes |->
     IF n \in SeqToSet(DepNames(row.dependsOn)) /\ n \notin SeqToSet(classes)
     THEN c ELSE enqueuedBy[n]]

\* the compiledClass listener of analyseClasses: names to fix up
ListenerNames(old, new) ==
  (IF old # NoRow
   THEN (IF old.extends # "" THEN << old.extends >> ELSE << >>)
        \o old.implement \o old.include
   ELSE << >>)
  \o (IF new.extends # "" THEN << new.extends >> ELSE << >>)
  \o new.implement \o new.include

StartRun ==
  /\ Idle
  /\ runs < MaxRuns
  /\ runs' = runs + 1
  /\ phase' = "scan"
  /\ classes' = Seeds
  /\ classIndex' = 0
  /\ pending' = {}
  /\ compiledClasses' = << >>
  /\ metaFixupDescendants' = << >>
  /\ cachedMeta' = [c \in Classes |-> NoMeta]
  /\ mergeIndex' = 0
  /\ fixupTodo' = << >>
  /\ toSave' = << >>
  /\ saveTodo' = << >>
  /\ metaWrittenLog' = {}
  /\ metaWrites' = << >>
  /\ cbResult' = "none"
  /\ callbacks' = << >>
  /\ events' = << >>
  /\ logged' = {}
  /\ enqueuedBy' = [c \in Classes |-> ""]
  /\ outcome' = [c \in Classes |-> ""]
  /\ base' = IF clean THEN [kind |-> "base", db |-> db, meta |-> metaFile] ELSE NoBase
  /\ clean' = FALSE
  /\ UNCHANGED << envVars, db, oldInfo, lastCall, prev, okMtime, regVars >>

\* getClassInfo finds no library: the error is logged and dropped
DispatchNoClass ==
  /\ phase = "scan" /\ WhilstTest /\ IterateeReady
  /\ LET c == classes[classIndex + 1] IN
       /\ GetClassInfoOutcome(c, FALSE) = "noclass"
       /\ classIndex' = classIndex + 1
       /\ logged' = logged \cup {c}
       /\ outcome' = [outcome EXCEPT ![c] = "noclass"]
       /\ lastCall' = CallRecord(c, FALSE, "noclass")
  /\ UNCHANGED << envVars, db, phase, classes, pending, oldInfo, compiledClasses,
                  metaFixupDescendants, metaVars, cbResult, callbacks, events, enqueuedBy,
                  base, regVars, okMtime, prev, clean, runs >>

\* fs.stat of the source fails: the error reaches the whilst callback and
\* ends the run
\* mutant of WhilstDone: the error of the iteratee is dropped
WhilstDone_IgnoreError(err) == "scan"

\* async.whilst with an iteratee error calls Done(err) and stops iterating;
\* Done: if (err) { cb && cb(err); return; }
WhilstDone(err) == IF err THEN "aborted" ELSE "scan"

DispatchStatError ==
  /\ phase = "scan" /\ WhilstTest /\ IterateeReady
  /\ LET c == classes[classIndex + 1] IN
       /\ GetClassInfoOutcome(c, FALSE) = "staterr"
       /\ classIndex' = classIndex + 1
       /\ outcome' = [outcome EXCEPT ![c] = "staterr"]
       /\ lastCall' = CallRecord(c, FALSE, "staterr")
  /\ phase' = WhilstDone(TRUE)
  /\ cbResult' = "error"
  /\ callbacks' = Append(callbacks, "stat")
  /\ prev' = NoBase
  /\ UNCHANGED << envVars, db, classes, pending, oldInfo, compiledClasses,
                  metaFixupDescendants, metaVars, events, logged, enqueuedBy,
                  base, regVars, okMtime, clean, runs >>

\* the class is fresh: the cached row is returned and its dependsOn enqueued
DispatchCached ==
  /\ phase = "scan" /\ WhilstTest /\ IterateeReady
  /\ LET c == classes[classIndex + 1] IN
       /\ GetClassInfoOutcome(c, FALSE) = "cached"
       /\ classIndex' = classIndex + 1
       /\ classes' = AddRequiredClasses(classes, db[c])
       /\ enqueuedBy' = NoteEnqueued(c, db[c])
       /\ outcome' = [outcome EXCEPT ![c] = "cached"]
       /\ lastCall' = CallRecord(c, FALSE, "cached")
  /\ UNCHANGED << envVars, db, phase, pending, oldInfo, compiledClasses,
                  metaFixupDescendants, metaVars, cbResult, callbacks, events, logged,
                  base, regVars, okMtime, prev, clean, runs >>

\* the class is stale: scanFile starts the compile
DispatchCompile ==
  /\ phase = "scan" /\ WhilstTest /\ IterateeReady
  /\ LET c == classes[classIndex + 1] IN
       /\ GetClassInfoOutcome(c, FALSE) = "compile"
       /\ classIndex' = classIndex + 1
       /\ ScanFileCompile(c, FALSE)
  /\ UNCHANGED << envVars, phase, classes, compiledClasses,
                  metaFixupDescendants, metaVars, cbResult, callbacks, logged, enqueuedBy,
                  base, regVars, okMtime, prev, clean, runs >>

\* ClassFile.load() calls back without error
LoadDone ==
  /\ phase = "scan"
  /\ \E c \in pending :
       /\ Variant(c, srcVer[c]).ok
       /\ LoadSucceeded(c)
       /\ LET new == WriteDbInfo(db[c], Variant(c, srcVer[c])) IN
            /\ metaFixupDescendants' =
                 AddAll(metaFixupDescendants, ListenerNames(oldInfo[c], new))
            /\ compiledClasses' = AddUnique(compiledClasses, c)
            /\ classes' = AddRequiredClasses(classes, new)
            /\ enqueuedBy' = NoteEnqueued(c, new)
  /\ UNCHANGED << lib, srcMtime, srcVer, metaFile, dbFile, now, changes, phase,
                  classIndex, oldInfo, metaVars, cbResult, callbacks, logged, lastCall,
                  base, regVars, prev, clean, runs >>

\* ClassFile.load() calls back with an error: no compiledClass, the run ends
LoadFailed ==
  /\ phase = "scan"
  /\ \E c \in pending :
       /\ ~Variant(c, srcVer[c]).ok
       /\ pending' = pending \ {c}
       /\ outcome' = [outcome EXCEPT ![c] = "failed"]
  /\ phase' = WhilstDone(TRUE)
  /\ cbResult' = "error"
  /\ callbacks' = Append(callbacks, "load")
  /\ prev' = NoBase
  /\ UNCHANGED << envVars, db, classes, classIndex, oldInfo, compiledClasses,
                  metaFixupDescendants, metaVars, events, logged, enqueuedBy,
                  lastCall, base, regVars, okMtime, clean, runs >>

----------------------------------------------------------------------------
(* analyseClasses: the indirect-load lift *)

HasFlag(e, f) == f \in e.flags

\* getConstructDependencies(className); the caller makes sure the row exists
GetConstructDependencies(d, className) ==
  DepNames(SelectSeq(d[className].dependsOn, LAMBDA e : HasFlag(e, "construct")))

RECURSIVE Flatten(_)
Flatten(ss) == IF ss = << >> THEN << >> ELSE Head(ss) \o Flatten(Tail(ss))

\* the names whose load flag is set in the row of className
LoadDeps(d, className) ==
  IF d[className] = NoRow THEN << >>
  ELSE DepNames(SelectSeq(d[className].dependsOn, LAMBDA e : HasFlag(e, "load")))

\* getConstructDependencies reads info.dependsOn of a row that does not
\* exist: a TypeError is thrown out of the whilst callback
LiftThrows(d, className) ==
  \E n \in SeqToSet(LoadDeps(d, className)) : d[n] = NoRow

\* getIndirectLoadDependencies(className)
GetIndirectLoadDependencies(d, className) ==
  LET ld == LoadDeps(d, className)
  IN Flatten([i \in 1..Len(ld) |-> GetConstructDependencies(d, ld[i])])

\* info.dependsOn[depName].load = true, creating the entry when missing
SetLoad(deps, n) ==
  IF n \in SeqToSet(DepNames(deps))
  THEN [i \in 1..Len(deps) |->
          IF deps[i].name = n THEN [deps[i] EXCEPT !.flags = @ \cup {"load"}]
          ELSE deps[i]]
  ELSE Append(deps, Dep(n, {"load"}))

RECURSIVE SetLoadAll(_, _)
SetLoadAll(deps, ns) ==
  IF ns = << >> THEN deps ELSE SetLoadAll(SetLoad(deps, Head(ns)), Tail(ns))

\* the body of classes.forEach for one className
LiftClass(d, className) ==
  LET ns == GetIndirectLoadDependencies(d, className)
  IN IF ns = << >> THEN d
     ELSE [d EXCEPT ![className].dependsOn = SetLoadAll(@, ns)]

\* classes.forEach from entry i on; rows already lifted stay lifted when a
\* later entry throws
RECURSIVE LiftFrom(_, _, _)
LiftFrom(d, cls, i) ==
  IF i > Len(cls) THEN [db |-> d, threw |-> FALSE]
  ELSE IF LiftThrows(d, cls[i]) THEN [db |-> d, threw |-> TRUE]
  ELSE LiftFrom(LiftClass(d, cls[i]), cls, i + 1)

\* getOuterClassMeta() of a class compiled in this run
LiveMeta(c) ==
  OuterClassMeta(c,
    IF c \in MetaClasses THEN srcVer[c]
    ELSE Decl("class", db[c].implement, db[c].include, db[c].extends, << >>, NoEntity),
    db[c].mtime)

\* the whilst callback without error: the lift, then analyzeMeta seeds
\* cachedMeta with the live meta of every compiled class
Lift ==
  /\ phase = "scan" /\ ~WhilstTest /\ pending = {}
  /\ LET r == LiftFrom(db, classes, 1) IN
       /\ db' = r.db
       /\ IF r.threw
          THEN /\ phase' = "crashed"
               /\ cachedMeta' = cachedMeta
          ELSE /\ phase' = "merge"
               /\ cachedMeta' = [c \in DOMAIN cachedMeta |->
                      IF c \in SeqToSet(compiledClasses) THEN LiveMeta(c)
                      ELSE cachedMeta[c]]
  /\ prev' = IF LiftFrom(db, classes, 1).threw THEN NoBase ELSE prev
  /\ UNCHANGED << envVars, classes, classIndex, pending, oldInfo,
                  compiledClasses, metaFixupDescendants, mergeIndex, fixupTodo,
                  toSave, saveTodo, metaWrittenLog, metaWrites, cbResult, callbacks, events, logged,
                  enqueuedBy, outcome, lastCall, base, regVars, okMtime, clean, runs >>

----------------------------------------------------------------------------
(* analyseClasses: analyzeMeta *)

\* calcDescendants(classname, meta): a full scan of db.classInfo
CalcDescendants(classname) ==
  {name \in DOMAIN db : db[name] # NoRow /\ db[name].extends = classname}

\* the content of a meta file, as jsonlint.parse returns it
MetaContent(f) == f.content

\* loadMetaData(classname): the synthetic roots have no meta, a cached meta
\* is returned, otherwise the file is read (a failed read yields nothing)
LoadMetaData(classname) ==
  IF classname \in {"Object", "Array", "Error"} THEN NoMeta
  ELSE IF cachedMeta[classname] # NoMeta THEN cachedMeta[classname]
  ELSE IF metaFile[classname] = NoMeta THEN NoMeta
  ELSE MetaContent(metaFile[classname])

----------------------------------------------------------------------------
(* analyseClasses: updateMetaData *)

\* meta.properties / meta.members is there
HasSection(section) == \E n \in DOMAIN section : section[n] # NoEntity

\* mutant of SeeEntity: appearsIn is also noted for the meta being merged
SeeEntity_AppearsInFirst(entityInfo, meta, first, entityMeta) ==
  LET e0 == IF entityInfo = NoInfo
            THEN [kind |-> "info", appearsIn |-> << >>, overriddenFrom |-> "",
                  abstract |-> meta.type = "interface",
                  mixin |-> meta.type = "mixin",
                  inherited |-> ~first, property |-> "", interface |-> FALSE]
            ELSE entityInfo
      e1 == IF entityMeta.property # ""
            THEN [e0 EXCEPT !.property = entityMeta.property] ELSE e0
      e2 == IF meta.type = "mixin" /\ e1.abstract
            THEN [e1 EXCEPT !.mixin = TRUE] ELSE e1
      e3 == IF meta.type # "interface"
            THEN [e2 EXCEPT !.abstract = FALSE]
            ELSE [e2 EXCEPT !.interface = TRUE]
      e4 == [e3 EXCEPT !.appearsIn = AddUnique(e3.appearsIn, meta.className)]
  IN IF ~first /\ e4.overriddenFrom = ""
     THEN [e4 EXCEPT !.overriddenFrom = meta.className] ELSE e4

\* lines 504-533: the row of an entity when the walk sees it in meta
SeeEntity(entityInfo, meta, first, entityMeta) ==
  LET e0 == IF entityInfo = NoInfo
            THEN [kind |-> "info", appearsIn |-> << >>, overriddenFrom |-> "",
                  abstract |-> meta.type = "interface",
                  mixin |-> meta.type = "mixin",
                  inherited |-> ~first, property |-> "", interface |-> FALSE]
            ELSE entityInfo
      e1 == IF entityMeta.property # ""
            THEN [e0 EXCEPT !.property = entityMeta.property] ELSE e0
      e2 == IF meta.type = "mixin" /\ e1.abstract
            THEN [e1 EXCEPT !.mixin = TRUE] ELSE e1
      e3 == IF meta.type # "interface"
            THEN [e2 EXCEPT !.abstract = FALSE]
            ELSE [e2 EXCEPT !.interface = TRUE]
      e4 == IF ~first
            THEN [e3 EXCEPT !.appearsIn = AddUnique(e3.appearsIn, meta.className)]
            ELSE e3
  IN IF ~first /\ e4.overriddenFrom = ""
     THEN [e4 EXCEPT !.overriddenFrom = meta.className] ELSE e4

\* lines 496-540: the members of type function and the properties of meta
SeeEntities(t, meta, first) ==
  [t EXCEPT
     !.members = [n \in MemberNames |->
        IF meta.members[n].type = "function"
        THEN SeeEntity(t.members[n], meta, first, meta.members[n])
        ELSE t.members[n]],
     !.properties = [n \in PropNames |->
        IF meta.properties[n] # NoEntity
        THEN SeeEntity(t.properties[n], meta, first, meta.properties[n])
        ELSE t.properties[n]]]

\* addPropertyAccessor: a missing or abstract row is replaced; appearsIn[0]
\* of an object is undefined, so overriddenFrom is null
AddPropertyAccessor(entityInfo, propertyMeta, accessorType, first) ==
  IF entityInfo = NoInfo \/ entityInfo.abstract
  THEN [kind |-> "info",
        appearsIn |-> IF entityInfo = NoInfo THEN << >> ELSE entityInfo.appearsIn,
        overriddenFrom |-> "", abstract |-> FALSE,
        mixin |-> propertyMeta.mixin, inherited |-> ~first,
        property |-> accessorType, interface |-> FALSE]
  ELSE entityInfo

\* lines 607-643: the accessors a property gets
AccessorsOf(propertyMeta) ==
  LET type == IF propertyMeta.check = "" THEN "any" ELSE propertyMeta.check
  IN {"get", "set", "reset"}
       \cup (IF type = "Boolean" THEN {"is"} ELSE {})
       \cup (IF propertyMeta.async THEN {"getAsync", "setAsync"} ELSE {})
       \cup (IF propertyMeta.async /\ type = "Boolean" THEN {"isAsync"} ELSE {})

\* lines 563-645: the accessors of the properties of meta
AddAccessors(t, meta, first) ==
  LET propertyMeta == meta.properties["p"]
  IN IF propertyMeta = NoEntity THEN t
     ELSE [t EXCEPT !.members = [n \in MemberNames |->
             IF \E k \in AccessorsOf(propertyMeta) : AccessorName[k] = n
             THEN AddPropertyAccessor(t.members[n], propertyMeta,
                    CHOOSE k \in AccessorKinds : AccessorName[k] = n, first)
             ELSE t.members[n]]]

RECURSIVE AnalyseClassEntities(_, _, _)
RECURSIVE AnalyseAll(_, _)

\* analyseClassEntities(meta, first): own entities, interfaces, mixins,
\* superClass, then the accessors; t.loaded collects the names loaded
AnalyseClassEntities(t, meta, first) ==
  LET t1 == SeeEntities(t, meta, first)
      t2 == AnalyseAll(t1, meta.interfaces)
      t3 == AnalyseAll(t2, meta.mixins)
      t4 == IF meta.superClass # "" THEN AnalyseAll(t3, << meta.superClass >>) ELSE t3
  IN AddAccessors(t4, meta, first)

\* analyseClassEntities(name) for each name: a meta that cannot be loaded
\* is skipped
AnalyseAll(t, names) ==
  IF names = << >> THEN t
  ELSE LET meta == LoadMetaData(Head(names))
           t1   == IF meta = NoMeta THEN t
                   ELSE AnalyseClassEntities(
                          [t EXCEPT !.loaded = @ \cup {Head(names)}], meta, FALSE)
       IN AnalyseAll(t1, Tail(names))

\* classEntities after analyseClassEntities(meta, true)
ClassEntities(meta) ==
  AnalyseClassEntities(
    [members |-> [n \in MemberNames |-> NoInfo],
     properties |-> [n \in PropNames |-> NoInfo],
     loaded |-> {}], meta, TRUE)

\* lines 675-716: refined properties take overriddenFrom and appearsIn; a
\* row that is abstract or mixin replaces the entry (meta.properties is
\* indexed by the row, which never finds an entry)
WriteBackProperties(meta, t) ==
  IF ~HasSection(meta.properties) THEN meta.properties
  ELSE [n \in PropNames |->
    LET own  == meta.properties[n]
        info == t.properties[n]
        refined == IF own # NoEntity /\ own.refine /\ info # NoInfo
                   THEN [own EXCEPT !.overriddenFrom = info.overriddenFrom,
                                    !.appearsIn = info.appearsIn]
                   ELSE own
    IN IF info # NoInfo /\ (info.abstract \/ info.mixin)
       THEN [Entity("property") EXCEPT !.abstract = info.abstract,
                                       !.mixin = info.mixin,
                                       !.overriddenFrom = info.overriddenFrom]
       ELSE refined]

\* lines 718-773: own functions take overriddenFrom and appearsIn, a
\* variable with a row becomes a function, a row that is abstract, mixin
\* or an accessor and has no entry is materialised (appearsIn.length of an
\* object is undefined, so the entry gets no appearsIn)
WriteBackMembers(meta, t) ==
  [n \in MemberNames |->
    LET own  == meta.members[n]
        info == t.members[n]
    IN IF own # NoEntity
       THEN LET m1 == IF own.type = "function" /\ info # NoInfo
                      THEN [own EXCEPT !.overriddenFrom = info.overriddenFrom,
                                       !.appearsIn = info.appearsIn]
                      ELSE own
            IN IF m1.type = "variable" /\ info # NoInfo
               THEN [m1 EXCEPT !.type = "function"] ELSE m1
       ELSE IF info # NoInfo /\ (info.abstract \/ info.mixin \/ info.property # "")
       THEN [Entity("function") EXCEPT !.abstract = info.abstract,
                                       !.mixin = info.mixin,
                                       !.inherited = info.inherited,
                                       !.overriddenFrom = info.overriddenFrom,
                                       !.property = info.property]
       ELSE NoEntity]

\* the metas that loadMetaData returned during the walk (and cached)
LoadedBy(meta) == ClassEntities(meta).loaded

\* updateMetaData(classname, meta): the meta after the merge
UpdateMetaData(meta) ==
  LET t       == ClassEntities(meta)
      members == WriteBackMembers(meta, t)
  IN [meta EXCEPT
        !.properties = WriteBackProperties(meta, t),
        !.members = members,
        !.abstract = meta.abstract \/
           \E n \in MemberNames :
              meta.members[n] = NoEntity /\ members[n] # NoEntity /\ members[n].abstract]

----------------------------------------------------------------------------
(* analyseClasses: analyzeMeta, continued *)

\* for (classname in compiledClasses): updateMetaData, calcDescendants, toSave
MergeStep ==
  /\ phase = "merge"
  /\ mergeIndex < Len(compiledClasses)
  /\ LET c == compiledClasses[mergeIndex + 1] IN
       /\ mergeIndex' = mergeIndex + 1
       /\ IF cachedMeta[c] # NoMeta
          THEN /\ cachedMeta' = [n \in DOMAIN cachedMeta |->
                    IF n = c
                    THEN [UpdateMetaData(cachedMeta[c]) EXCEPT
                            !.descendants = CalcDescendants(c)]
                    ELSE IF n \in LoadedBy(cachedMeta[c])
                    THEN LoadMetaData(n)
                    ELSE cachedMeta[n]]
               /\ toSave' = AddUnique(toSave, c)
          ELSE UNCHANGED << cachedMeta, toSave >>
  /\ UNCHANGED << envVars, db, phase, classes, classIndex, pending, oldInfo,
                  compiledClasses, metaFixupDescendants, fixupTodo, saveTodo,
                  metaWrittenLog, metaWrites, cbResult, callbacks, events, logged, enqueuedBy, outcome,
                  lastCall, base, regVars, okMtime, prev, clean, runs >>

\* the names of metaFixupDescendants that were not compiled in this run and
\* have a row
\* mutant of FixupNames: no class is fixed up
FixupNames_None == << >>

\* the names collected by the listener that were not compiled in this run
\* and have a row
FixupNames ==
  SelectSeq(metaFixupDescendants,
            LAMBDA n : n \notin SeqToSet(compiledClasses) /\ db[n] # NoRow)

\* for (classname in metaFixupDescendants): the fixups are chained on p
MergeDone ==
  /\ phase = "merge"
  /\ mergeIndex = Len(compiledClasses)
  /\ phase' = "fixup"
  /\ fixupTodo' = FixupNames
  /\ UNCHANGED << envVars, db, classes, classIndex, pending, oldInfo,
                  compiledClasses, metaFixupDescendants, cachedMeta, mergeIndex,
                  toSave, saveTodo, metaWrittenLog, metaWrites, cbResult, callbacks, events, logged,
                  enqueuedBy, outcome, lastCall, base, regVars, okMtime, prev, clean, runs >>

\* one link of the chain: loadMetaData, calcDescendants, toSave
FixupStep ==
  /\ phase = "fixup"
  /\ fixupTodo # << >>
  /\ LET x == Head(fixupTodo)
         m == LoadMetaData(x)
     IN /\ fixupTodo' = Tail(fixupTodo)
        /\ IF m # NoMeta
           THEN /\ cachedMeta' = [cachedMeta EXCEPT
                      ![x] = [m EXCEPT !.descendants = CalcDescendants(x)]]
                /\ toSave' = AddUnique(toSave, x)
           ELSE UNCHANGED << cachedMeta, toSave >>
  /\ UNCHANGED << envVars, db, phase, classes, classIndex, pending, oldInfo,
                  compiledClasses, metaFixupDescendants, mergeIndex, saveTodo,
                  metaWrittenLog, metaWrites, cbResult, callbacks, events, logged, enqueuedBy, outcome,
                  lastCall, base, regVars, okMtime, prev, clean, runs >>

\* mutant of FixupsChained: the saves do not wait for the chain p
FixupsChained_NoAwait == TRUE

\* await p.then(...): every fixup chained on p has settled
FixupsChained == fixupTodo = << >>

\* Promise.all(Object.keys(toSave).map(saveMetaData))
FixupDone ==
  /\ phase = "fixup"
  /\ FixupsChained
  /\ phase' = "save"
  /\ saveTodo' = toSave
  /\ UNCHANGED << envVars, db, classes, classIndex, pending, oldInfo,
                  compiledClasses, metaFixupDescendants, cachedMeta, mergeIndex,
                  fixupTodo, toSave, metaWrittenLog, metaWrites, cbResult, callbacks, events, logged,
                  enqueuedBy, outcome, lastCall, base, regVars, okMtime, prev, clean, runs >>

\* saveMetaData(classname, meta): a second write of a class throws
\* mutant of AlreadyWritten: saveMetaData without the metaWrittenLog test
AlreadyWritten_Never(c) == FALSE

\* if (metaWrittenLog[classname]) throw ...
AlreadyWritten(c) == c \in metaWrittenLog

\* one saveMetaData call of Promise.all(Object.keys(toSave).map(...)): every
\* call is started by map, so a call that throws rejects the run's promise
\* (the callback gets the error) and the calls after it still write
SaveStep ==
  /\ phase = "save"
  /\ saveTodo # << >>
  /\ LET c == Head(saveTodo) IN
       /\ saveTodo' = Tail(saveTodo)
       /\ IF AlreadyWritten(c)
          THEN /\ cbResult' = "error"
               /\ callbacks' = IF cbResult = "error" THEN callbacks
                               ELSE Append(callbacks, "write")
               /\ UNCHANGED << metaFile, metaWrittenLog, metaWrites >>
          ELSE /\ metaWrittenLog' = metaWrittenLog \cup {c}
               /\ metaFile' = [metaFile EXCEPT ![c] =
                     [kind |-> "file", mtime |-> now, content |-> cachedMeta[c]]]
               /\ metaWrites' = Append(metaWrites, c)
               /\ UNCHANGED << cbResult, callbacks >>
  /\ UNCHANGED << lib, srcMtime, srcVer, outMtime, dbFile, now, changes, db, phase,
                  classes, classIndex, pending, oldInfo, compiledClasses,
                  metaFixupDescendants, cachedMeta, mergeIndex, fixupTodo,
                  toSave, events, logged, enqueuedBy, outcome, lastCall, base, regVars, okMtime, prev, clean,
                  runs >>

Finish ==
  /\ phase = "save"
  /\ saveTodo = << >>
  /\ phase' = IF cbResult = "error" THEN "aborted" ELSE "done"
  /\ cbResult' = IF cbResult = "error" THEN "error" ELSE "ok"
  /\ callbacks' = IF cbResult = "error" THEN callbacks ELSE Append(callbacks, "ok")
  /\ clean' = (cbResult # "error")
  /\ prev' = IF cbResult = "error" THEN NoBase
            ELSE [kind |-> "completed", classes |-> SeqToSet(classes), src |-> srcMtime]
  /\ UNCHANGED << envVars, db, classes, classIndex, pending, oldInfo,
                  compiledClasses, metaFixupDescendants, metaVars, events,
                  logged, enqueuedBy, outcome, lastCall, base, regVars, okMtime, runs >>

\* saveDatabase(), called by the caller of analyseClasses from its callback
SaveDatabase ==
  /\ phase \in {"done", "external"} /\ pending = {}
  /\ dbFile # [kind |-> "db", classInfo |-> db]
  /\ dbFile' = [kind |-> "db", classInfo |-> db]
  /\ UNCHANGED << lib, srcMtime, srcVer, outMtime, metaFile, now, changes, db,
                  phase, classes, classIndex, pending, oldInfo, compiledClasses,
                  metaFixupDescendants, metaVars, cbResult, callbacks, events, logged,
                  enqueuedBy, outcome, lastCall, base, regVars, okMtime, prev, clean, runs >>

----------------------------------------------------------------------------
(* The environment, between runs *)

Max(a, b) == IF a >= b THEN a ELSE b

\* a source file is rewritten (new mtime, some content of the menu)
Touch ==
  /\ Idle
  /\ changes < MaxChanges
  /\ \E c \in lib, m \in 1..MaxTime, v \in 1..3 :
       /\ v <= NumVariants(c)
       /\ m # srcMtime[c]
       /\ srcMtime' = [srcMtime EXCEPT ![c] = m]
       /\ srcVer' = [srcVer EXCEPT ![c] = v]
       /\ now' = Max(now, m)
  /\ changes' = changes + 1
  /\ clean' = FALSE
  /\ UNCHANGED << lib, outMtime, metaFile, dbFile, db, phase, classes, classIndex,
                  pending, oldInfo, compiledClasses, metaFixupDescendants,
                  metaVars, cbResult, callbacks, events, logged, enqueuedBy, outcome, lastCall,
                  base, regVars, okMtime, prev, runs >>

\* a source file is deleted while its library still lists the class
Unlink ==
  /\ Idle
  /\ changes < MaxChanges
  /\ \E c \in lib :
       /\ srcMtime[c] # 0
       /\ srcMtime' = [srcMtime EXCEPT ![c] = 0]
  /\ changes' = changes + 1
  /\ clean' = FALSE
  /\ prev' = NoBase
  /\ UNCHANGED << lib, srcVer, outMtime, metaFile, dbFile, now, db, phase, classes,
                  classIndex, pending, oldInfo, compiledClasses,
                  metaFixupDescendants, metaVars, cbResult, callbacks, events, logged,
                  enqueuedBy, outcome, lastCall, base, regVars, okMtime, runs >>

\* a class file is gone when the libraries are scanned: the name resolves
\* to no library any more, its row stays in the database
RemoveClassFile ==
  /\ Idle
  /\ changes < MaxChanges
  /\ \E c \in lib :
       /\ lib' = lib \ {c}
       /\ srcMtime' = [srcMtime EXCEPT ![c] = 0]
  /\ changes' = changes + 1
  /\ clean' = FALSE
  /\ prev' = NoBase
  /\ UNCHANGED << srcVer, outMtime, metaFile, dbFile, now, db, phase, classes,
                  classIndex, pending, oldInfo, compiledClasses,
                  metaFixupDescendants, metaVars, cbResult, callbacks, events, logged,
                  enqueuedBy, outcome, lastCall, base, regVars, okMtime, runs >>

----------------------------------------------------------------------------
(* The analyser after construction, libraries added, nothing compiled yet *)

Init ==
  /\ lib \in {Classes, Classes \ {"C"}}
  /\ srcMtime = [c \in Classes |-> IF c \in lib THEN 1 ELSE 0]
  /\ srcVer \in {f \in [Classes -> 1..3] : \A c \in Classes : f[c] <= NumVariants(c)}
  /\ outMtime = [c \in Classes |-> 0]
  /\ metaFile = [c \in Classes |-> NoMeta]
  /\ dbFile = NoFile
  /\ now = 1
  /\ changes = 0
  /\ db = [c \in Classes |-> NoRow]
  /\ phase = "idle"
  /\ classes = << >>
  /\ classIndex = 0
  /\ pending = {}
  /\ oldInfo = [c \in Classes |-> NoRow]
  /\ compiledClasses = << >>
  /\ metaFixupDescendants = << >>
  /\ cachedMeta = [c \in Classes |-> NoMeta]
  /\ mergeIndex = 0
  /\ fixupTodo = << >>
  /\ toSave = << >>
  /\ saveTodo = << >>
  /\ metaWrittenLog = {}
  /\ metaWrites = << >>
  /\ cbResult = "none"
  /\ callbacks = << >>
  /\ events = << >>
  /\ logged = {}
  /\ enqueuedBy = [c \in Classes |-> ""]
  /\ outcome = [c \in Classes |-> ""]
  /\ lastCall = NoCall
  /\ base = NoBase
  /\ libraries = << >>
  /\ librariesByNamespace = [ns \in Namespaces |-> NoLibrary]
  /\ translations = [id \in TranslationIds |-> NoTranslation]
  /\ handed = {}
  /\ walk = << >>
  /\ visits = [c \in MetaClasses |-> 0]
  /\ prev = NoBase
  /\ clean = FALSE
  /\ runs = 0
  /\ okMtime = [c \in DOMAIN db |-> IF db[c] = NoRow THEN 0 ELSE db[c].mtime]

Next ==
  \/ StartRun
  \/ DispatchNoClass
  \/ DispatchStatError
  \/ DispatchCached
  \/ DispatchCompile
  \/ LoadDone
  \/ LoadFailed
  \/ Lift
  \/ MergeStep
  \/ MergeDone
  \/ FixupStep
  \/ FixupDone
  \/ SaveStep
  \/ Finish
  \/ SaveDatabase
  \/ Touch
  \/ Unlink
  \/ RemoveClassFile

Spec == Init /\ [][Next]_vars

----------------------------------------------------------------------------
(* getClassInfo called directly (getClassInfo is public; forceScan is only *)
(* ever passed by such callers).  No analyseClasses run is in progress,   *)
(* so no listener of a run hears the events.                               *)

scanVars == << classes, classIndex, compiledClasses, metaFixupDescendants,
               metaVars, cbResult, callbacks, logged, enqueuedBy, base, prev, clean >>
runVars == << scanVars, regVars >>

MaxCalls == 2   \* direct getClassInfo calls per behaviour

ExtNoClass ==
  /\ phase = "external" /\ runs < MaxCalls
  /\ \E c \in Classes, force \in BOOLEAN :
       /\ GetClassInfoOutcome(c, force) = "noclass"
       /\ outcome' = [outcome EXCEPT ![c] = "noclass"]
       /\ lastCall' = CallRecord(c, force, "noclass")
  /\ runs' = runs + 1
  /\ UNCHANGED << envVars, db, phase, pending, oldInfo, events, runVars, okMtime >>

ExtStatError ==
  /\ phase = "external" /\ runs < MaxCalls
  /\ \E c \in Classes, force \in BOOLEAN :
       /\ GetClassInfoOutcome(c, force) = "staterr"
       /\ outcome' = [outcome EXCEPT ![c] = "staterr"]
       /\ lastCall' = CallRecord(c, force, "staterr")
  /\ runs' = runs + 1
  /\ UNCHANGED << envVars, db, phase, pending, oldInfo, events, runVars, okMtime >>

ExtCached ==
  /\ phase = "external" /\ runs < MaxCalls
  /\ \E c \in Classes, force \in BOOLEAN :
       /\ GetClassInfoOutcome(c, force) = "cached"
       /\ outcome' = [outcome EXCEPT ![c] = "cached"]
       /\ lastCall' = CallRecord(c, force, "cached")
  /\ runs' = runs + 1
  /\ UNCHANGED << envVars, db, phase, pending, oldInfo, events, runVars, okMtime >>

ExtCompile ==
  /\ phase = "external" /\ runs < MaxCalls
  /\ \E c \in Classes, force \in BOOLEAN :
       /\ c \notin pending
       /\ GetClassInfoOutcome(c, force) = "compile"
       /\ ScanFileCompile(c, force)
  /\ runs' = runs + 1
  /\ UNCHANGED << envVars, phase, runVars, okMtime >>

ExtLoadDone ==
  /\ phase = "external"
  /\ \E c \in pending :
       /\ Variant(c, srcVer[c]).ok
       /\ LoadSucceeded(c)
  /\ UNCHANGED << lib, srcMtime, srcVer, metaFile, dbFile, now, changes, phase,
                  oldInfo, lastCall, runs, runVars >>

ExtLoadFailed ==
  /\ phase = "external"
  /\ \E c \in pending :
       /\ ~Variant(c, srcVer[c]).ok
       /\ pending' = pending \ {c}
       /\ outcome' = [outcome EXCEPT ![c] = "failed"]
  /\ UNCHANGED << envVars, db, phase, oldInfo, events, lastCall, runs, runVars, okMtime >>

\* a row as an earlier compile left it: populated, or minimal after a
\* failed load
RowsOf(c) ==
  {NoRow} \cup
  {MinimalRow(m) : m \in 1..MaxTime} \cup
  {WriteDbInfo(MinimalRow(m), Variant(c, v)) :
     m \in 1..MaxTime, v \in {w \in 1..3 : w <= NumVariants(c) /\ Variant(c, w).ok}}

SomeMeta(m) ==
  [kind |-> "file", mtime |-> m,
   content |-> OuterClassMeta("A", Decl("class", << >>, << >>, "", << >>, NoEntity), m)]

\* any state of the files and of the row of class A; the clock is not
\* behind any file
InitGCI ==
  /\ lib \in {Classes, Classes \ {"A"}}
  /\ srcMtime \in {f \in [Classes -> 0..MaxTime] :
                     /\ f["B"] = 1 /\ f["C"] = 1
                     /\ ("A" \notin lib => f["A"] = 0)}
  /\ srcVer \in {f \in [Classes -> 1..3] : f["B"] = 1 /\ f["C"] = 1}
  /\ outMtime \in {f \in [Classes -> 0..MaxTime] : f["B"] = 0 /\ f["C"] = 0}
  /\ metaFile \in {f \in [Classes -> {NoMeta, SomeMeta(1)}] :
                     f["B"] = NoMeta /\ f["C"] = NoMeta}
  /\ dbFile = NoFile
  /\ now = MaxTime
  /\ changes = 0
  /\ db \in {f \in [Classes -> RowsOf("A")] : f["B"] = NoRow /\ f["C"] = NoRow}
  /\ phase = "external"
  /\ classes = << >>
  /\ classIndex = 0
  /\ pending = {}
  /\ oldInfo = [c \in Classes |-> NoRow]
  /\ compiledClasses = << >>
  /\ metaFixupDescendants = << >>
  /\ cachedMeta = [c \in Classes |-> NoMeta]
  /\ mergeIndex = 0
  /\ fixupTodo = << >>
  /\ toSave = << >>
  /\ saveTodo = << >>
  /\ metaWrittenLog = {}
  /\ metaWrites = << >>
  /\ cbResult = "none"
  /\ callbacks = << >>
  /\ events = << >>
  /\ logged = {}
  /\ enqueuedBy = [c \in Classes |-> ""]
  /\ outcome = [c \in Classes |-> ""]
  /\ lastCall = NoCall
  /\ base = NoBase
  /\ libraries = << >>
  /\ librariesByNamespace = [ns \in Namespaces |-> NoLibrary]
  /\ translations = [id \in TranslationIds |-> NoTranslation]
  /\ handed = {}
  /\ walk = << >>
  /\ visits = [c \in MetaClasses |-> 0]
  /\ prev = NoBase
  /\ clean = FALSE
  /\ runs = 0
  /\ okMtime = [c \in DOMAIN db |-> IF db[c] = NoRow THEN 0 ELSE db[c].mtime]

NextGCI ==
  \/ ExtNoClass
  \/ ExtStatError
  \/ ExtCached
  \/ ExtCompile
  \/ ExtLoadDone
  \/ ExtLoadFailed

SpecGCI == InitGCI /\ [][NextGCI]_vars

----------------------------------------------------------------------------
(* The merge on the graph I, M, Base, Sub.  A run is entered where its     *)
(* worklist has drained: the classes in compileOrder were compiled, in     *)
(* that order, the others were found fresh.                                *)

MaxMerges == 2   \* analyseClasses runs per behaviour

Function == [foo |-> "function"]

\* the declarations a source file may hold
DeclsOf(c) ==
  CASE c = "I" ->
         {Decl("interface", << >>, << >>, "", Function, NoEntity),
          Decl("interface", << >>, << >>, "", [getP |-> "function"], NoEntity),
          Decl("interface", << >>, << >>, "", << >>,
               PropertyDecl("Boolean", FALSE, FALSE))}
    [] c = "M" ->
         {Decl("mixin", << >>, << >>, "", Function, NoEntity),
          Decl("mixin", << >>, << >>, "", << >>,
               PropertyDecl("Boolean", TRUE, FALSE))}
    [] c = "Base" ->
         {Decl("class", uses[1], uses[2], "", members, NoEntity) :
            uses \in {<< << >>, << >> >>, << << "I" >>, << >> >>,
                      << << >>, << "M" >> >>},
            members \in {<< >>, Function, [getP |-> "function"]}}
    [] OTHER ->
         {Decl("class", uses[1], uses[2], "Base", members, prop) :
            uses \in {<< << >>, << >> >>, << << "I" >>, << >> >>,
                      << << >>, << "M" >> >>},
            members \in {<< >>, Function, [foo |-> "variable"]},
            prop \in {NoEntity, PropertyDecl("Boolean", FALSE, FALSE),
                      PropertyDecl("String", TRUE, FALSE),
                      PropertyDecl("", FALSE, TRUE)}}

\* the first run compiles every class, a later run some of them
FullOrders    == {<< "I", "M", "Base", "Sub" >>, << "Sub", "Base", "I", "M" >>}
PartialOrders == {<< "Sub" >>, << "Base" >>, << "I", "Base" >>}

\* what writeDbInfo reports for a declaration
DeclRow(d) ==
  [ok |-> TRUE, extends |-> d.superClass, implement |-> d.interfaces,
   include |-> d.mixins, dependsOn |-> NoDeps]

RECURSIVE ListenerAll(_, _, _)
\* the compiledClass listener over the compiles of a run
ListenerAll(names, order, newDb) ==
  IF order = << >> THEN names
  ELSE ListenerAll(AddAll(names, ListenerNames(db[Head(order)], newDb[Head(order)])),
                   Tail(order), newDb)

\* analyseClasses up to analyzeMeta: the scan compiled compileOrder, the
\* lift found no dependsOn to lift, cachedMeta holds the live metas
MetaScan ==
  /\ phase \in {"idle", "done"}
  /\ runs < MaxMerges
  /\ \E compileOrder \in (IF \A c \in MetaClasses : metaFile[c] = NoMeta
                          THEN FullOrders ELSE PartialOrders) :
       LET compiled == SeqToSet(compileOrder)
           newDb == [c \in MetaClasses |->
                       IF c \in compiled
                       THEN WriteDbInfo(MinimalRow(srcMtime[c]), DeclRow(srcVer[c]))
                       ELSE db[c]]
       IN /\ db' = newDb
          /\ oldInfo' = [c \in MetaClasses |->
                           IF c \in compiled THEN db[c] ELSE oldInfo[c]]
          /\ outMtime' = [c \in MetaClasses |->
                            IF c \in compiled THEN now ELSE outMtime[c]]
          /\ classes' = compileOrder
          /\ classIndex' = Len(compileOrder)
          /\ compiledClasses' = compileOrder
          /\ metaFixupDescendants' = ListenerAll(<< >>, compileOrder, newDb)
          /\ cachedMeta' = [c \in MetaClasses |->
                              IF c \in compiled
                              THEN OuterClassMeta(c, srcVer[c], srcMtime[c])
                              ELSE NoMeta]
  /\ okMtime' = [c \in MetaClasses |->
                  IF c \in SeqToSet(classes') THEN srcMtime[c] ELSE okMtime[c]]
  /\ runs' = runs + 1
  /\ phase' = "merge"
  /\ mergeIndex' = 0
  /\ fixupTodo' = << >>
  /\ toSave' = << >>
  /\ saveTodo' = << >>
  /\ metaWrittenLog' = {}
  /\ metaWrites' = << >>
  /\ cbResult' = "none"
  /\ callbacks' = << >>
  /\ UNCHANGED << lib, srcMtime, srcVer, metaFile, dbFile, now, changes, pending,
                  events, logged, enqueuedBy, outcome, lastCall, base, regVars, prev, clean >>

InitMeta ==
  /\ lib = MetaClasses
  /\ srcMtime = [c \in MetaClasses |-> 1]
  /\ \E i \in DeclsOf("I"), m \in DeclsOf("M"),
        b \in DeclsOf("Base"), s \in DeclsOf("Sub") :
       srcVer = [c \in MetaClasses |->
                   CASE c = "I" -> i [] c = "M" -> m [] c = "Base" -> b [] OTHER -> s]
  /\ outMtime = [c \in MetaClasses |-> 0]
  /\ metaFile = [c \in MetaClasses |-> NoMeta]
  /\ dbFile = NoFile
  /\ now = 1
  /\ changes = 0
  /\ db = [c \in MetaClasses |-> NoRow]
  /\ phase = "idle"
  /\ classes = << >>
  /\ classIndex = 0
  /\ pending = {}
  /\ oldInfo = [c \in MetaClasses |-> NoRow]
  /\ compiledClasses = << >>
  /\ metaFixupDescendants = << >>
  /\ cachedMeta = [c \in MetaClasses |-> NoMeta]
  /\ mergeIndex = 0
  /\ fixupTodo = << >>
  /\ toSave = << >>
  /\ saveTodo = << >>
  /\ metaWrittenLog = {}
  /\ metaWrites = << >>
  /\ cbResult = "none"
  /\ callbacks = << >>
  /\ events = << >>
  /\ logged = {}
  /\ enqueuedBy = [c \in MetaClasses |-> ""]
  /\ outcome = [c \in MetaClasses |-> ""]
  /\ lastCall = NoCall
  /\ base = NoBase
  /\ libraries = << >>
  /\ librariesByNamespace = [ns \in Namespaces |-> NoLibrary]
  /\ translations = [id \in TranslationIds |-> NoTranslation]
  /\ handed = {}
  /\ walk = << >>
  /\ visits = [c \in MetaClasses |-> 0]
  /\ prev = NoBase
  /\ clean = FALSE
  /\ runs = 0
  /\ okMtime = [c \in DOMAIN db |-> IF db[c] = NoRow THEN 0 ELSE db[c].mtime]

NextMeta ==
  \/ MetaScan
  \/ MergeStep
  \/ MergeDone
  \/ FixupStep
  \/ FixupDone
  \/ SaveStep
  \/ Finish

SpecMeta == InitMeta /\ [][NextMeta]_vars

----------------------------------------------------------------------------
(* saveMetaData applied to every list of class names, one call per entry *)

MaxSaves == 3

\* the lists of at most n names
SaveLists(n) == UNION {[1..k -> Classes] : k \in 0..n}

InitSave ==
  /\ lib = Classes
  /\ srcMtime = [c \in Classes |-> 1]
  /\ srcVer = [c \in Classes |-> 1]
  /\ outMtime = [c \in Classes |-> 1]
  /\ db = [c \in Classes |-> WriteDbInfo(MinimalRow(1), Variant(c, 1))]
  /\ cachedMeta = [c \in Classes |->
        OuterClassMeta(c, Decl("class", << >>, << >>, "", << >>, NoEntity), 1)]
  /\ metaFile \in [Classes -> {NoMeta, [kind |-> "file", mtime |-> 1, content |-> NoMeta]}]
  /\ dbFile = NoFile
  /\ now = 2
  /\ changes = 0
  /\ phase = "save"
  /\ classes = Seeds
  /\ classIndex = Len(Seeds)
  /\ pending = {}
  /\ oldInfo = [c \in Classes |-> NoRow]
  /\ compiledClasses = << >>
  /\ metaFixupDescendants = << >>
  /\ mergeIndex = 0
  /\ fixupTodo = << >>
  /\ toSave = << >>
  /\ saveTodo \in SaveLists(MaxSaves)
  /\ metaWrittenLog = {}
  /\ metaWrites = << >>
  /\ cbResult = "none"
  /\ callbacks = << >>
  /\ events = << >>
  /\ logged = {}
  /\ enqueuedBy = [c \in Classes |-> ""]
  /\ outcome = [c \in Classes |-> ""]
  /\ lastCall = NoCall
  /\ base = NoBase
  /\ libraries = << >>
  /\ librariesByNamespace = [ns \in Namespaces |-> NoLibrary]
  /\ translations = [id \in TranslationIds |-> NoTranslation]
  /\ handed = {}
  /\ walk = << >>
  /\ visits = [c \in MetaClasses |-> 0]
  /\ prev = NoBase
  /\ clean = FALSE
  /\ runs = 1
  /\ okMtime = [c \in DOMAIN db |-> IF db[c] = NoRow THEN 0 ELSE db[c].mtime]

NextSave ==
  \/ SaveStep
  \/ Finish

SpecSave == InitSave /\ [][NextSave]_vars

----------------------------------------------------------------------------
(* The indirect-load lift applied to every small class database: the       *)
(* worklist has drained over the three classes in some order, each class   *)
(* has a row whose dependsOn table names the two other classes with any    *)
(* of the flags load and construct, or has no row (no library has it).     *)

LiftFlags == {{}, {"load"}, {"construct"}, {"load", "construct"}}

\* the dependsOn tables of className: one optional entry per other class
LiftTables(className) ==
  LET others == CHOOSE s \in [1..2 -> Classes \ {className}] : s[1] # s[2]
  IN {SelectSeq([i \in 1..2 |-> Dep(others[i], f[i])], LAMBDA e : e.flags # {}) :
        f \in [1..2 -> LiftFlags]}

LiftRows(className) ==
  {NoRow} \cup {[MinimalRow(1) EXCEPT !.dependsOn = t, !.populated = TRUE] :
                  t \in LiftTables(className)}

Orders == {s \in [1..3 -> Classes] : \A i, j \in 1..3 : i # j => s[i] # s[j]}

InitLift ==
  /\ db \in {d \in [Classes -> UNION {LiftRows(c) : c \in Classes}] :
               \A c \in Classes : d[c] \in LiftRows(c)}
  /\ lib = {c \in Classes : db[c] # NoRow}
  /\ srcMtime = [c \in Classes |-> IF c \in lib THEN 1 ELSE 0]
  /\ srcVer = [c \in Classes |-> 1]
  /\ outMtime = [c \in Classes |-> IF c \in lib THEN 1 ELSE 0]
  /\ metaFile = [c \in Classes |-> NoMeta]
  /\ dbFile = NoFile
  /\ now = 1
  /\ changes = 0
  /\ phase = "scan"
  /\ classes \in Orders
  /\ classIndex = Len(classes)
  /\ pending = {}
  /\ oldInfo = [c \in Classes |-> NoRow]
  /\ compiledClasses = << >>
  /\ metaFixupDescendants = << >>
  /\ cachedMeta = [c \in Classes |-> NoMeta]
  /\ mergeIndex = 0
  /\ fixupTodo = << >>
  /\ toSave = << >>
  /\ saveTodo = << >>
  /\ metaWrittenLog = {}
  /\ metaWrites = << >>
  /\ cbResult = "none"
  /\ callbacks = << >>
  /\ events = << >>
  /\ logged = {}
  /\ enqueuedBy = [c \in Classes |-> ""]
  /\ outcome = [c \in Classes |-> ""]
  /\ lastCall = NoCall
  /\ base = NoBase
  /\ libraries = << >>
  /\ librariesByNamespace = [ns \in Namespaces |-> NoLibrary]
  /\ translations = [id \in TranslationIds |-> NoTranslation]
  /\ handed = {}
  /\ walk = << >>
  /\ visits = [c \in MetaClasses |-> 0]
  /\ prev = NoBase
  /\ clean = FALSE
  /\ runs = 1
  /\ okMtime = [c \in DOMAIN db |-> IF db[c] = NoRow THEN 0 ELSE db[c].mtime]

NextLift ==
  \/ Lift

SpecLift == InitLift /\ [][NextLift]_vars

----------------------------------------------------------------------------
(* open(): loadDatabase, initialScan, saveDatabase.  The DB file is absent, *)
(* holds a database, cannot be read (fs.readFile reports an error; the     *)
(* database it holds stays on disk) or cannot be parsed.  After open() the *)
(* caller calls getClassInfo and saveDatabase.                             *)

EmptyDb == [c \in Classes |-> NoRow]

\* the databases a DB file may hold: rows of class A
DbContents == {[c \in Classes |-> IF c = "A" THEN r ELSE NoRow] : r \in RowsOf("A")}

DbFiles ==
  {NoFile, [kind |-> "garbled", classInfo |-> EmptyDb]} \cup
  {[kind |-> k, classInfo |-> d] : k \in {"db", "unreadable"}, d \in DbContents}

\* loadDatabase with no DB file, or one that is read and parsed: __db is {}
\* or the parsed database
LoadDatabase ==
  /\ phase = "closed"
  /\ dbFile = NoFile \/ dbFile.kind = "db"
  /\ db' = IF dbFile = NoFile THEN EmptyDb ELSE dbFile.classInfo
  /\ okMtime' = [c \in Classes |-> IF db'[c] = NoRow THEN 0 ELSE db'[c].mtime]
  /\ phase' = "loaded"
  /\ UNCHANGED << envVars, pending, oldInfo, events, outcome, lastCall, runs, runVars >>

\* fs.readFile reports an error: the waterfall ends with err, the final
\* callback logs it and calls cb() without it; __db stays null
LoadDatabaseReadError ==
  /\ phase = "closed"
  /\ dbFile # NoFile /\ dbFile.kind = "unreadable"
  /\ phase' = "loaded"
  /\ UNCHANGED << envVars, db, okMtime, pending, oldInfo, events, outcome, lastCall,
                  runs, runVars >>

\* jsonlint.parse throws inside the waterfall task, which runs in the
\* callback of fs.readFile: the exception is uncaught, the promise of
\* open() never settles
LoadDatabaseParseThrows ==
  /\ phase = "closed"
  /\ dbFile # NoFile /\ dbFile.kind = "garbled"
  /\ phase' = "crashed"
  /\ UNCHANGED << envVars, db, okMtime, pending, oldInfo, events, outcome, lastCall,
                  runs, runVars >>

\* open() after loadDatabase: initialScan makes __db an object if it is
\* null, then saveDatabase writes it
OpenScanSave ==
  /\ phase = "loaded"
  /\ dbFile' = [kind |-> "db", classInfo |-> db]
  /\ phase' = "external"
  /\ UNCHANGED << lib, srcMtime, srcVer, outMtime, metaFile, now, changes, db,
                  okMtime, pending, oldInfo, events, outcome, lastCall, runs, runVars >>

InitOpen ==
  /\ lib \in {Classes, Classes \ {"A"}}
  /\ srcMtime \in {f \in [Classes -> 0..MaxTime] :
                     /\ f["B"] = 1 /\ f["C"] = 1
                     /\ ("A" \notin lib => f["A"] = 0)}
  /\ srcVer \in {f \in [Classes -> 1..3] : f["B"] = 1 /\ f["C"] = 1}
  /\ outMtime \in {f \in [Classes -> {0, MaxTime}] : f["B"] = 0 /\ f["C"] = 0}
  /\ metaFile \in {f \in [Classes -> {NoMeta, SomeMeta(1)}] :
                     f["B"] = NoMeta /\ f["C"] = NoMeta}
  /\ dbFile \in DbFiles
  /\ now = MaxTime
  /\ changes = 0
  /\ db = EmptyDb
  /\ phase = "closed"
  /\ classes = << >>
  /\ classIndex = 0
  /\ pending = {}
  /\ oldInfo = [c \in Classes |-> NoRow]
  /\ compiledClasses = << >>
  /\ metaFixupDescendants = << >>
  /\ cachedMeta = [c \in Classes |-> NoMeta]
  /\ mergeIndex = 0
  /\ fixupTodo = << >>
  /\ toSave = << >>
  /\ saveTodo = << >>
  /\ metaWrittenLog = {}
  /\ metaWrites = << >>
  /\ cbResult = "none"
  /\ callbacks = << >>
  /\ events = << >>
  /\ logged = {}
  /\ enqueuedBy = [c \in Classes |-> ""]
  /\ outcome = [c \in Classes |-> ""]
  /\ lastCall = NoCall
  /\ base = NoBase
  /\ libraries = << >>
  /\ librariesByNamespace = [ns \in Namespaces |-> NoLibrary]
  /\ translations = [id \in TranslationIds |-> NoTranslation]
  /\ handed = {}
  /\ walk = << >>
  /\ visits = [c \in MetaClasses |-> 0]
  /\ prev = NoBase
  /\ clean = FALSE
  /\ runs = 0
  /\ okMtime = [c \in Classes |-> 0]

NextOpen ==
  \/ LoadDatabase
  \/ LoadDatabaseReadError
  \/ LoadDatabaseParseThrows
  \/ OpenScanSave
  \/ ExtNoClass
  \/ ExtStatError
  \/ ExtCached
  \/ ExtCompile
  \/ ExtLoadDone
  \/ ExtLoadFailed
  \/ SaveDatabase

SpecOpen == InitOpen /\ [][NextOpen]_vars

-----------------------------------------------------------------------------
(* Library index and translation registry: addLibrary, findLibrary,        *)
(* getLibraryFromClassname and getTranslation called in any order.         *)

MaxLibraries == 3   \* addLibrary calls per behaviour

\* The Library objects handed to addLibrary; two of them report one namespace
Libraries == { [id |-> "app1", namespace |-> "app"],
               [id |-> "app2", namespace |-> "app"],
               [id |-> "lib1", namespace |-> "lib"] }

\* library.getSymbolType(name) reports a class: the class files of the library
LibrarySymbols(library) ==
  CASE library.id = "app1" -> {"A"}
    [] library.id = "app2" -> {"A", "B"}
    [] library.id = "lib1" -> {"C"}

\* The namespace a class name belongs to
ClassNamespace(className) == IF className = "C" THEN "lib" ELSE "app"

\* findLibrary(name)
FindLibrary(name) == librariesByNamespace[name]

\* getLibraryFromClassname(className): __classFiles is never filled, so the
\* first library of __libraries that knows the symbol is returned, else null
GetLibraryFromClassname(className) ==
  LET known == {j \in DOMAIN libraries : className \in LibrarySymbols(libraries[j])} IN
    IF known = {} THEN NoLibrary
    ELSE libraries[CHOOSE j \in known : \A k \in known : j <= k]

\* addLibrary(library)
AddLibrary ==
  /\ Len(libraries) < MaxLibraries
  /\ \E library \in Libraries :
       /\ libraries' = Append(libraries, library)
       /\ librariesByNamespace' =
            [librariesByNamespace EXCEPT ![library.namespace] = library]
       /\ lib' = lib \cup LibrarySymbols(library)
  /\ UNCHANGED << srcMtime, srcVer, outMtime, metaFile, dbFile, now, changes,
                  db, phase, pending, oldInfo, scanVars, okMtime, events, outcome,
                  lastCall, runs, translations, handed, walk, visits >>

\* getTranslation(library, locale): a missing Translation is created, cached
\* and read; a cached one is returned to the caller as it is
GetTranslation ==
  /\ \E library \in Libraries, locale \in Locales :
       LET id == TranslationId(library, locale)
           translation == translations[id] IN
         IF translation = NoTranslation
           THEN /\ translations' = [translations EXCEPT
                       ![id] = [library |-> library.id, read |-> FALSE]]
                /\ handed' = handed
           ELSE /\ handed' = handed \cup {[id |-> id, read |-> translation.read]}
                /\ translations' = translations
  /\ UNCHANGED << envVars, db, phase, pending, oldInfo, scanVars, okMtime, events,
                  outcome, lastCall, runs, libraries, librariesByNamespace, walk, visits >>

\* translation.checkRead() completes: the call that created the Translation
\* resolves with it
CheckReadDone ==
  /\ \E id \in TranslationIds :
       /\ translations[id] # NoTranslation
       /\ ~translations[id].read
       /\ translations' = [translations EXCEPT ![id].read = TRUE]
       /\ handed' = handed \cup {[id |-> id, read |-> TRUE]}
  /\ UNCHANGED << envVars, db, phase, pending, oldInfo, scanVars, okMtime, events,
                  outcome, lastCall, runs, libraries, librariesByNamespace, walk, visits >>

InitLib ==
  /\ lib = {}
  /\ srcMtime = [c \in Classes |-> 1]
  /\ srcVer = [c \in Classes |-> 1]
  /\ outMtime = [c \in Classes |-> 0]
  /\ metaFile = [c \in Classes |-> NoMeta]
  /\ dbFile = NoFile
  /\ now = MaxTime
  /\ changes = 0
  /\ db = [c \in Classes |-> NoRow]
  /\ phase = "external"
  /\ classes = << >>
  /\ classIndex = 0
  /\ pending = {}
  /\ oldInfo = [c \in Classes |-> NoRow]
  /\ compiledClasses = << >>
  /\ metaFixupDescendants = << >>
  /\ cachedMeta = [c \in Classes |-> NoMeta]
  /\ mergeIndex = 0
  /\ fixupTodo = << >>
  /\ toSave = << >>
  /\ saveTodo = << >>
  /\ metaWrittenLog = {}
  /\ metaWrites = << >>
  /\ cbResult = "none"
  /\ callbacks = << >>
  /\ events = << >>
  /\ logged = {}
  /\ enqueuedBy = [c \in Classes |-> ""]
  /\ outcome = [c \in Classes |-> ""]
  /\ lastCall = NoCall
  /\ base = NoBase
  /\ libraries = << >>
  /\ librariesByNamespace = [ns \in Namespaces |-> NoLibrary]
  /\ translations = [id \in TranslationIds |-> NoTranslation]
  /\ handed = {}
  /\ walk = << >>
  /\ visits = [c \in MetaClasses |-> 0]
  /\ okMtime = [c \in Classes |-> 0]
  /\ prev = NoBase
  /\ clean = FALSE
  /\ runs = 0

NextLib == AddLibrary \/ GetTranslation \/ CheckReadDone

SpecLib == InitLib /\ [][NextLib]_vars

-----------------------------------------------------------------------------
(* The ancestor walk of one updateMetaData call, one analyseClassEntities  *)
(* call at a time, over inheritance graphs that may hold a cycle.          *)

MaxVisits == 3   \* analyseClassEntities calls per class that are followed

\* meta.interfaces, meta.mixins, meta.superClass: the order of the walk
Ancestors(meta) ==
  meta.interfaces \o meta.mixins \o
    (IF meta.superClass # "" THEN << meta.superClass >> ELSE << >>)

\* getOuterClassMeta(): null when the source file defines no class
GetOuterClassMeta(className, d, mtime) ==
  IF d.type = "none" THEN NoMeta ELSE OuterClassMeta(className, d, mtime)

\* The declarations of I, M, Base, Sub as an earlier run compiled them
EarlierGraph ==
  [c \in MetaClasses |->
     CASE c = "I" -> Decl("interface", << >>, << >>, "", Function, NoEntity)
       [] c = "M" -> Decl("mixin", << >>, << >>, "", Function, NoEntity)
       [] c = "Base" -> Decl("class", << "I" >>, << "M" >>, "Object", Function, NoEntity)
       [] OTHER -> Decl("class", << >>, << >>, "Base", Function, NoEntity)]

\* The declarations of I, M, Base, Sub: a tree, a diamond, graphs in which
\* a class reaches itself through superClass, mixins or interfaces, and a
\* tree in which the file of Base no longer defines a class
WalkGraphs ==
  LET G(i, m, b, s) == [c \in MetaClasses |->
        CASE c = "I" -> i [] c = "M" -> m [] c = "Base" -> b [] OTHER -> s]
      I0 == Decl("interface", << >>, << >>, "", Function, NoEntity)
      M0 == Decl("mixin", << >>, << >>, "", Function, NoEntity)
      B0 == Decl("class", << "I" >>, << "M" >>, "Object", Function, NoEntity)
      S0 == Decl("class", << >>, << >>, "Base", Function, NoEntity)
  IN { G(I0, M0, B0, S0),
       G(I0, M0, Decl("none", << >>, << >>, "", << >>, NoEntity), S0),
       G(I0, M0, B0, [S0 EXCEPT !.interfaces = << "I" >>]),
       G(I0, M0, [B0 EXCEPT !.superClass = "Sub"], S0),
       G(I0, [M0 EXCEPT !.mixins = << "M" >>], B0, S0),
       G([I0 EXCEPT !.superClass = "I"], M0, B0, S0) }

\* updateMetaData(meta): analyseClassEntities(meta, true) is entered
WalkStart ==
  /\ walk = << >>
  /\ runs < MaxRuns
  /\ \E c \in SeqToSet(compiledClasses) :
       /\ cachedMeta[c] # NoMeta
       /\ walk' = << [className |-> c, todo |-> Ancestors(cachedMeta[c])] >>
       /\ visits' = [d \in MetaClasses |-> IF d = c THEN 1 ELSE 0]
  /\ runs' = runs + 1
  /\ UNCHANGED << envVars, db, phase, pending, oldInfo, scanVars, okMtime, events,
                  outcome, lastCall, libraries, librariesByNamespace,
                  translations, handed >>

\* lines 541-560: the call in progress makes its next analyseClassEntities
\* call; the meta is loaded (a meta read from disk is cached) and, if there
\* is one, the call is entered
WalkCall ==
  /\ walk # << >>
  /\ LET top  == walk[Len(walk)]
         rest == SubSeq(walk, 1, Len(walk) - 1) IN
       /\ top.todo # << >>
       /\ LET name == Head(top.todo)
              meta == LoadMetaData(name)
              back == Append(rest, [top EXCEPT !.todo = Tail(top.todo)]) IN
            IF meta = NoMeta
              THEN /\ walk' = back
                   /\ visits' = visits
                   /\ cachedMeta' = cachedMeta
              ELSE /\ visits[name] < MaxVisits
                   /\ walk' = Append(back, [className |-> name, todo |-> Ancestors(meta)])
                   /\ visits' = [visits EXCEPT ![name] = @ + 1]
                   /\ cachedMeta' = [cachedMeta EXCEPT ![name] = meta]
  /\ UNCHANGED << envVars, db, phase, pending, oldInfo, okMtime, events,
                  outcome, lastCall, runs, libraries, librariesByNamespace,
                  translations, handed, classes, classIndex, compiledClasses,
                  metaFixupDescendants, mergeIndex, fixupTodo, toSave, saveTodo,
                  metaWrittenLog, metaWrites, cbResult, callbacks, logged,
                  enqueuedBy, base, prev, clean >>

\* the call in progress has walked its interfaces, mixins and superClass
WalkReturn ==
  /\ walk # << >>
  /\ walk[Len(walk)].todo = << >>
  /\ walk' = SubSeq(walk, 1, Len(walk) - 1)
  /\ UNCHANGED << envVars, db, phase, pending, oldInfo, scanVars, okMtime, events,
                  outcome, lastCall, runs, libraries, librariesByNamespace,
                  translations, handed, visits >>

\* the classes compiled in the run, in the order of compiledClasses
CompiledOrders == { << "I", "M", "Base", "Sub" >>, << "Sub", "Base", "M" >>,
                    << "Base", "Sub" >> }

\* every class of the graph was compiled in the run, or only some of them;
\* the meta files are absent or those of an earlier run; analyzeMeta has
\* seeded cachedMeta with getOuterClassMeta() of the compiled classes
InitWalk ==
  /\ lib = MetaClasses
  /\ srcMtime = [c \in MetaClasses |-> 1]
  /\ srcVer \in WalkGraphs
  /\ outMtime = [c \in MetaClasses |-> 1]
  /\ metaFile \in {[c \in MetaClasses |-> NoMeta],
                   [c \in MetaClasses |->
                      [kind |-> "file", mtime |-> 1,
                       content |-> OuterClassMeta(c, EarlierGraph[c], 1)]]}
  /\ dbFile = NoFile
  /\ now = 1
  /\ changes = 0
  /\ db = [c \in MetaClasses |-> WriteDbInfo(MinimalRow(1), DeclRow(srcVer[c]))]
  /\ phase = "merge"
  /\ classes = << >>
  /\ classIndex = 0
  /\ pending = {}
  /\ oldInfo = [c \in MetaClasses |-> NoRow]
  /\ compiledClasses \in CompiledOrders
  /\ metaFixupDescendants = << >>
  /\ cachedMeta = [c \in MetaClasses |->
                     IF c \in SeqToSet(compiledClasses)
                     THEN GetOuterClassMeta(c, srcVer[c], 1) ELSE NoMeta]
  /\ mergeIndex = 0
  /\ fixupTodo = << >>
  /\ toSave = << >>
  /\ saveTodo = << >>
  /\ metaWrittenLog = {}
  /\ metaWrites = << >>
  /\ cbResult = "none"
  /\ callbacks = << >>
  /\ events = << >>
  /\ logged = {}
  /\ enqueuedBy = [c \in MetaClasses |-> ""]
  /\ outcome = [c \in MetaClasses |-> ""]
  /\ lastCall = NoCall
  /\ base = NoBase
  /\ libraries = << >>
  /\ librariesByNamespace = [ns \in Namespaces |-> NoLibrary]
  /\ translations = [id \in TranslationIds |-> NoTranslation]
  /\ handed = {}
  /\ walk = << >>
  /\ visits = [c \in MetaClasses |-> 0]
  /\ okMtime = [c \in MetaClasses |-> 1]
  /\ prev = NoBase
  /\ clean = FALSE
  /\ runs = 0

NextWalk == WalkStart \/ WalkCall \/ WalkReturn

SpecWalk == InitWalk /\ [][NextWalk]_vars

-----------------------------------------------------------------------------
(* analyseClasses under the scheduling of async.whilst: the iteratee is    *)
(* called again whenever the test holds and the previous call has called   *)
(* back, every ClassFile.load() calls back, and the final callback runs    *)
(* when the test fails.                                                    *)

Dispatch == DispatchNoClass \/ DispatchStatError \/ DispatchCached \/ DispatchCompile

\* a fresh checkout, or the files and rows an earlier run left; the source
\* of B may be missing
InitDrain ==
  /\ lib \in {Classes, Classes \ {"C"}}
  /\ srcMtime \in {[c \in Classes |-> IF c \in lib \ gone THEN 1 ELSE 0] :
                     gone \in {{}, {"B"}}}
  /\ srcVer \in {f \in [Classes -> 1..3] : \A c \in Classes : f[c] <= NumVariants(c)}
  /\ \E done \in {{}, lib} :
       /\ outMtime = [c \in Classes |-> IF c \in done THEN 1 ELSE 0]
       /\ metaFile = [c \in Classes |-> IF c \in done THEN SomeMeta(1) ELSE NoMeta]
       /\ db = [c \in Classes |->
                  IF c \in done /\ Variant(c, srcVer[c]).ok
                  THEN WriteDbInfo(MinimalRow(1), Variant(c, srcVer[c]))
                  ELSE NoRow]
  /\ dbFile = NoFile
  /\ now = 1
  /\ changes = 0
  /\ phase = "idle"
  /\ classes = << >>
  /\ classIndex = 0
  /\ pending = {}
  /\ oldInfo = [c \in Classes |-> NoRow]
  /\ compiledClasses = << >>
  /\ metaFixupDescendants = << >>
  /\ cachedMeta = [c \in Classes |-> NoMeta]
  /\ mergeIndex = 0
  /\ fixupTodo = << >>
  /\ toSave = << >>
  /\ saveTodo = << >>
  /\ metaWrittenLog = {}
  /\ metaWrites = << >>
  /\ cbResult = "none"
  /\ callbacks = << >>
  /\ events = << >>
  /\ logged = {}
  /\ enqueuedBy = [c \in Classes |-> ""]
  /\ outcome = [c \in Classes |-> ""]
  /\ lastCall = NoCall
  /\ base = NoBase
  /\ libraries = << >>
  /\ librariesByNamespace = [ns \in Namespaces |-> NoLibrary]
  /\ translations = [id \in TranslationIds |-> NoTranslation]
  /\ handed = {}
  /\ walk = << >>
  /\ visits = [c \in MetaClasses |-> 0]
  /\ prev = NoBase
  /\ clean = FALSE
  /\ runs = 0
  /\ okMtime = [c \in DOMAIN db |-> IF db[c] = NoRow THEN 0 ELSE db[c].mtime]

NextDrain ==
  \/ StartRun
  \/ DispatchNoClass
  \/ DispatchStatError
  \/ DispatchCached
  \/ DispatchCompile
  \/ LoadDone
  \/ LoadFailed
  \/ Lift

SpecDrain ==
  /\ InitDrain /\ [][NextDrain]_vars
  /\ WF_vars(Dispatch) /\ WF_vars(LoadDone \/ LoadFailed) /\ WF_vars(Lift)

----------------------------------------------------------------------------
(* Claims *)

Visited == {classes[i] : i \in 1..classIndex}

Count(kind, c) == Cardinality({i \in 1..Len(events) : events[i] = << kind, c >>})

Before(e1, e2) ==
  \E i, j \in 1..Len(events) : i < j /\ events[i] = e1 /\ events[j] = e2

NoCompiling == \A i \in 1..Len(events) : events[i][1] # "compilingClass"

\* fresh, as the staleness oracle is specified, on the inputs of a call
FreshInputs(r) ==
  /\ r.row # NoRow
  /\ r.row.mtime = r.src
  /\ r.out # 0
  /\ r.meta
  /\ r.out >= r.src
  /\ ~r.force

\* the decision of a call against the oracle as specified
C1_Decision ==
  lastCall # NoCall =>
    /\ lastCall.outcome = "cached" =>
         lastCall.inLib /\ lastCall.src # 0 /\ FreshInputs(lastCall)
    /\ (lastCall.inLib /\ lastCall.src # 0) =>
         /\ FreshInputs(lastCall) => lastCall.outcome = "cached"
         /\ ~FreshInputs(lastCall) =>
              /\ lastCall.outcome = "compile"
              /\ Count("compilingClass", lastCall.cls) >= 1

\* a call that returns the cached row compiles nothing and writes nothing
C1_CachedStep ==
  (runs' # runs /\ lastCall'.outcome = "cached") =>
     UNCHANGED << db, events, pending, outMtime, metaFile >>

\* C1: getClassInfo returns the cached row without compiling iff the row
\* exists, its mtime equals the source mtime, the output and the meta file
\* exist, the output is not older than the source and forceScan is not set;
\* for a class that resolves and whose source exists every other
\* combination is compiled.
C1_FreshIffCached == [](C1_Decision) /\ [][C1_CachedStep]_vars

\* C1 witness: a call that found everything in place and returned the row
C1_Witness ==
  /\ lastCall # NoCall
  /\ lastCall.outcome = "cached"
  /\ lastCall.row.populated
  /\ lastCall.out > lastCall.src

\* C2: a repeat run (same seeds, nothing changed since a run that completed
\* without error) compiles nothing and leaves the rows and the meta files
\* as they were; stated for runs in which every worklist name resolved.
C2_Idempotent ==
  (phase = "done" /\ base # NoBase /\ logged = {}) =>
     /\ NoCompiling
     /\ db = base.db
     /\ metaFile = base.meta

\* C3: when a run has completed, every name in the dependsOn of a class
\* whose getClassInfo returned a row was dispatched in the same run, or
\* resolves to no library and was logged.
C3_ClosureComplete ==
  phase = "done" =>
    \A C \in Visited :
      outcome[C] \in {"cached", "compiled"} =>
        \A N \in SeqToSet(DepNames(db[C].dependsOn)) :
          N \in Visited \/ (N \notin lib /\ N \in logged)

\* C4: a name that resolves to no library is logged and skipped; the run
\* goes on to the lift, the merge and the fixup and calls back without
\* error, whatever flags the dependsOn entries for the name carry.
C4_NoClassFileNonFatal == logged # {} => phase # "crashed"

\* C5: after a completed run every class with a row and a meta file lists
\* as descendants exactly the classes whose row extends it; stated for
\* runs in which every worklist name resolved and for databases whose rows
\* are all compiled rows.
C5_DescendantsConsistent ==
  (/\ phase = "done"
   /\ logged = {}
   /\ \A c \in Classes : db[c] # NoRow => db[c].populated) =>
    \A X \in Classes :
      (db[X] # NoRow /\ metaFile[X] # NoMeta) =>
        metaFile[X].content.descendants =
          {Y \in Classes : db[Y] # NoRow /\ db[Y].extends = X}

\* ---- the merge, against the declarations in the source files

\* the meta file of class c as the latest completed run left it
Merged(c) == metaFile[c].content

DeclaresMember(c, n) == n \in DOMAIN srcVer[c].members

DeclaresFunction(c, n) == DeclaresMember(c, n) /\ srcVer[c].members[n] = "function"

DeclaresProperty(c) == srcVer[c].prop # NoEntity

RECURSIVE WalkOrderAll(_)
\* the ancestors of a class in depth-first walk order: its interfaces
\* (each with its own ancestors), its mixins, its superclass
WalkOrder(c) ==
  WalkOrderAll(srcVer[c].interfaces \o srcVer[c].mixins \o
               (IF srcVer[c].superClass # "" THEN << srcVer[c].superClass >> ELSE << >>))

WalkOrderAll(names) ==
  IF names = << >> THEN << >>
  ELSE << Head(names) >> \o WalkOrder(Head(names)) \o WalkOrderAll(Tail(names))

\* the first name of the walk order that is in the set defining, "" if none
FirstOf(order, defining) ==
  IF \E i \in 1..Len(order) : order[i] \in defining
  THEN order[CHOOSE i \in 1..Len(order) :
               /\ order[i] \in defining
               /\ \A j \in 1..(i - 1) : order[j] \notin defining]
  ELSE ""

\* C6: for a merged class C, the member foo it declares as a function and
\* the property p it declares have overriddenFrom = the first ancestor, in
\* the walk order interfaces, mixins, superclass, that declares them, and
\* no overriddenFrom when no ancestor does.
C6_OverrideWins ==
  phase = "done" =>
    \A C \in MetaClasses :
      /\ DeclaresFunction(C, "foo") =>
           Merged(C).members["foo"].overriddenFrom =
             FirstOf(WalkOrder(C), {a \in MetaClasses : DeclaresFunction(a, "foo")})
      /\ DeclaresProperty(C) =>
           Merged(C).properties["p"].overriddenFrom =
             FirstOf(WalkOrder(C), {a \in MetaClasses : DeclaresProperty(a)})

\* foo is declared by an interface ancestor of C and by no class or mixin
\* among C and its ancestors
OnlyInterfacesDeclare(C, n) ==
  LET among == SeqToSet(WalkOrder(C)) \cup {C}
  IN /\ \E a \in among : srcVer[a].type = "interface" /\ DeclaresMember(a, n)
     /\ \A a \in among : srcVer[a].type # "interface" => ~DeclaresMember(a, n)

\* C7: for a merged class C, meta(C).members.foo is abstract, and meta(C)
\* is abstract, exactly when foo is declared by an interface among the
\* ancestors of C and by no class or mixin among C and its ancestors,
\* whether the ancestors were merged before C, after C or loaded from disk.
C7_AbstractPropagation ==
  phase = "done" =>
    \A C \in {"Base", "Sub"} :
      LET foo == Merged(C).members["foo"]
      IN /\ (foo # NoEntity /\ foo.abstract) <=> OnlyInterfacesDeclare(C, "foo")
         /\ OnlyInterfacesDeclare(C, "foo") => Merged(C).abstract

\* the member named after accessor kind k is there, synthesized or not
HasAccessor(C, k) == Merged(C).members[AccessorName[k]] # NoEntity

\* the member named after accessor kind k is there and synthesized
Synthesized(C, k) ==
  /\ HasAccessor(C, k)
  /\ Merged(C).members[AccessorName[k]].property # ""

\* C8: for a merged class C that declares property p with check T,
\* meta(C).members has getP, setP and resetP; a synthesized isP iff T is
\* Boolean; synthesized getPAsync and setPAsync iff p is async, isPAsync
\* iff async and Boolean; a synthesized member carries its accessor kind.
C8_AccessorCompleteness ==
  phase = "done" =>
    \A C \in MetaClasses :
      DeclaresProperty(C) =>
        LET p == srcVer[C].prop
        IN /\ HasAccessor(C, "get") /\ HasAccessor(C, "set") /\ HasAccessor(C, "reset")
           /\ Synthesized(C, "is") <=> p.check = "Boolean"
           /\ Synthesized(C, "getAsync") <=> p.async
           /\ Synthesized(C, "setAsync") <=> p.async
           /\ Synthesized(C, "isAsync") <=> (p.async /\ p.check = "Boolean")
           /\ \A k \in AccessorKinds :
                Synthesized(C, k) => Merged(C).members[AccessorName[k]].property = k

\* the events of a class against how its getClassInfo call went
C9_Events ==
  \A c \in Classes :
    /\ Count("compilingClass", c) <= 1
    /\ Count("compiledClass", c) <= 1
    /\ outcome[c] = "compiled" =>
         /\ Count("compilingClass", c) = 1
         /\ Count("compiledClass", c) = 1
         /\ Before(<< "compilingClass", c >>, << "compiledClass", c >>)
    /\ outcome[c] \in {"compiling", "failed"} =>
         /\ Count("compilingClass", c) = 1
         /\ Count("compiledClass", c) = 0
    /\ outcome[c] \in {"", "cached", "noclass", "staterr"} =>
         /\ Count("compilingClass", c) = 0
         /\ Count("compiledClass", c) = 0

\* the dispatch of a fresh class fires nothing and leaves the rows alone
C9_FreshStep ==
  (classIndex' = classIndex + 1 /\ outcome'[classes[classIndex + 1]] = "cached") =>
     UNCHANGED << db, events >>

\* C9: for a class that getClassInfo compiles, compilingClass fires exactly
\* once and before compiledClass; compiledClass fires exactly once when
\* load succeeds and never when it fails; for a fresh class neither fires
\* and its row is left unchanged.
C9_EventsOncePerCompile == [](C9_Events) /\ [][C9_FreshStep]_vars

\* C9 witness: a run that compiled one class and found another fresh
C9_Witness ==
  \E c, d \in Classes : outcome[c] = "compiled" /\ outcome[d] = "cached"

\* C10: at most one compile is outstanding: between the compilingClass of a
\* class and its compiledClass no other compilingClass fires; and a class
\* enqueued by a dependency of X compiled in this run starts compiling
\* only after the compiledClass of X.
C10_OneCompileAtATime ==
  /\ Cardinality(pending) <= 1
  /\ \A i, j \in 1..Len(events) :
       (i < j /\ events[i][1] = "compilingClass" /\ events[j][1] = "compilingClass") =>
          \E k \in (i + 1)..(j - 1) : events[k] = << "compiledClass", events[i][2] >>
  /\ \A j \in 1..Len(events) :
       LET Y == events[j][2]
           X == enqueuedBy[Y]
       IN (events[j][1] = "compilingClass" /\ X # "" /\ Count("compilingClass", X) > 0) =>
            \E i \in 1..(j - 1) : events[i] = << "compiledClass", X >>

\* C10 witness: C was enqueued by a class compiled in this run and has been
\* compiled itself
C10_Witness ==
  /\ enqueuedBy["C"] # ""
  /\ outcome[enqueuedBy["C"]] = "compiled"
  /\ outcome["C"] = "compiled"

\* the worklist has drained and no compile of the run is outstanding
C11_Drained == classIndex = Len(classes) /\ pending = {}

\* every class compiled in the run has been merged
C11_Merged ==
  /\ mergeIndex = Len(compiledClasses)
  /\ \A c \in SeqToSet(compiledClasses) : c \in SeqToSet(toSave)

\* the steps of a run in their order
C11_Step ==
  /\ (phase # "merge" /\ phase' = "merge") => C11_Drained
  /\ mergeIndex' > mergeIndex => C11_Drained
  /\ (phase \in {"merge", "fixup", "save"} /\ runs' = runs) => events' = events
  /\ (runs' = runs /\ Len(fixupTodo') < Len(fixupTodo)) => C11_Merged
  /\ metaFile' # metaFile => (C11_Merged /\ fixupTodo = << >>)
  /\ dbFile' # dbFile =>
       (C11_Drained /\ C11_Merged /\ fixupTodo = << >> /\ saveTodo = << >>)

SaveCalled == phase = "save" /\ saveTodo # << >> /\ saveTodo' = Tail(saveTodo)

C12_Step ==
  /\ (runs' = runs /\ metaWrites' # metaWrites) =>
        /\ SaveCalled
        /\ metaWrites' = Append(metaWrites, Head(saveTodo))
        /\ Head(saveTodo) \notin SeqToSet(metaWrites)
  /\ (SaveCalled /\ Head(saveTodo) \in SeqToSet(metaWrites)) =>
        /\ metaFile' = metaFile
        /\ metaWrites' = metaWrites
        /\ cbResult' = "error"
  /\ (SaveCalled /\ Head(saveTodo) \notin SeqToSet(metaWrites)) =>
        /\ metaWrites' = Append(metaWrites, Head(saveTodo))
        /\ metaFile'[Head(saveTodo)].mtime = now
        /\ \A d \in Classes \ {Head(saveTodo)} : metaFile'[d] = metaFile[d]

\* C12: in one run the meta file of a class is written at most once; a
\* second saveMetaData call for a class already written in the run throws
\* (the run's callback gets an error) and writes nothing
C12_NoDoubleWrite == [][C12_Step]_vars

C12_Witness ==
  /\ phase = "aborted"
  /\ cbResult = "error"
  /\ Len(metaWrites) = 2
  /\ \A c \in SeqToSet(metaWrites) : metaFile[c].mtime = now

\* the flag f of the entry for n in the row of c
RowFlag(d, c, n, f) ==
  /\ d[c] # NoRow
  /\ \E i \in 1..Len(d[c].dependsOn) :
        d[c].dependsOn[i].name = n /\ f \in d[c].dependsOn[i].flags

LiftStep == phase = "scan" /\ phase' # "scan" /\ runs' = runs

\* every construct dependency of every load dependency is a load dependency
C13_Lifted ==
  \A c \in SeqToSet(classes) : \A n, h \in Classes :
     (RowFlag(db, c, n, "load") /\ RowFlag(db, n, h, "construct"))
        => RowFlag(db', c, h, "load")

\* no other flag is set, and no load flag beyond one step from the flags
\* the rows had before the lift
C13_SinglePass ==
  \A c, h \in Classes :
     /\ \A f \in {"construct", "runtime"} : RowFlag(db', c, h, f) <=> RowFlag(db, c, h, f)
     /\ RowFlag(db', c, h, "load") =>
           \/ RowFlag(db, c, h, "load")
           \/ \E n \in Classes :
                 RowFlag(db, c, n, "load") /\ RowFlag(db, n, h, "construct")

C13_AnyOrder == \A q \in Orders : LiftFrom(db, q, 1).db = db'

C13_Step == LiftStep => (C13_Lifted /\ C13_SinglePass /\ C13_AnyOrder)

\* C13: the lift makes every construct dependency of every load dependency
\* of a class a load dependency of that class, sets no other flag, is not
\* applied to the flags it has just set, and gives the same rows whatever
\* the order of the classes
C13_IndirectLoadLift == [][C13_Step]_vars

\* the same, for the lifts in which every load dependency has a row
C13_LiftOfKnownClasses ==
  [][(LiftStep /\ phase' = "merge") => (C13_Lifted /\ C13_SinglePass /\ C13_AnyOrder)]_vars

CompiledIn(ev, c) == \E i \in 1..Len(ev) : ev[i] = << "compilingClass", c >>

\* the last run completed and since then exactly one class was touched
OneTouched(a) ==
  /\ prev # NoBase
  /\ {c \in Classes : srcMtime[c] # prev.src[c]} = {a}

\* the step on which the worklist of a run ends
ScanEnds == phase = "scan" /\ phase' # "scan" /\ runs' = runs

C14_Step ==
  \A a \in Classes : (OneTouched(a) /\ ScanEnds) =>
     /\ CompiledIn(events', a)
     /\ \A c \in Classes \ {a} : ~CompiledIn(events', c)

C14_VisitedStep ==
  \A a \in Classes : (OneTouched(a) /\ ScanEnds) =>
     /\ a \in prev.classes => CompiledIn(events', a)
     /\ \A c \in prev.classes \ {a} : ~CompiledIn(events', c)

FatalErrors == {"stat", "load"}

C15_Step ==
  /\ (callbacks' # callbacks /\ callbacks' # << >>
        /\ callbacks'[Len(callbacks')] \in FatalErrors) =>
        /\ Len(callbacks') = 1
        /\ phase' = "aborted"
        /\ mergeIndex' = 0 /\ toSave' = << >> /\ metaWrites' = << >>
        /\ metaFile' = metaFile
        /\ db' = db
  /\ (callbacks # << >> /\ callbacks[1] \in FatalErrors /\ runs' = runs) =>
        /\ UNCHANGED << phase, classIndex, pending, events, db, cachedMeta, mergeIndex,
                        fixupTodo, toSave, saveTodo, metaWrites, metaFile, callbacks >>

\* C15: when getClassInfo reports an error other than NoClassFile the run
\* aborts: the callback is invoked once, with that error, and afterwards the
\* run dispatches nothing, fires no event, lifts, merges, fixes up and
\* writes nothing
C15_AbortOnError == [][C15_Step]_vars

C15_Witness ==
  /\ phase = "aborted"
  /\ callbacks = << "stat" >>
  /\ compiledClasses # << >>
  /\ classIndex < Len(classes)
  /\ metaWrites = << >>

\* C16: whenever no compile is under way, the mtime of every row is the
\* source mtime at the class's last successful compile
C16_RowMtimeOfLastCompile ==
  (Idle /\ pending = {}) =>
     \A c \in DOMAIN db : db[c] # NoRow => db[c].mtime = okMtime[c]

\* the rows written by a successful compile do carry that compile's mtime
C16_PopulatedRows ==
  \A c \in DOMAIN db : (db[c] # NoRow /\ db[c].populated /\ c \notin pending) =>
     db[c].mtime = okMtime[c]

\* C17: between runs, a class the staleness oracle judges fresh has a meta
\* file at least as new as its source
C17_FreshHasCurrentMeta ==
  Idle =>
     \A c \in Classes : GetClassInfoOutcome(c, FALSE) = "cached" =>
        /\ metaFile[c] # NoMeta
        /\ metaFile[c].mtime >= srcMtime[c]

\* a call for a class that has a library and no source file
MissingSourceCall == runs' # runs /\ lastCall'.inLib /\ lastCall'.src = 0

C19_Step ==
  MissingSourceCall =>
     /\ ErrorCode(lastCall'.outcome) = "ENOCLASSFILE"
     /\ UNCHANGED << db, events, pending, outMtime, metaFile >>

\* C19: getClassInfo for a class of a library whose source file does not
\* exist reports an error with the code of NoClassFile, writes no row and
\* fires no event
C19_MissingSourceIsNoClassFile == [][C19_Step]_vars

C19_FsErrorStep ==
  MissingSourceCall =>
     /\ ErrorCode(lastCall'.outcome) = "ENOENT"
     /\ UNCHANGED << db, events, pending, outMtime, metaFile >>

\* C19, amended: the call reports the error of fs.stat as it is, which is
\* not a NoClassFile error, writes no row and fires no event
C19_MissingSourceIsFsError == [][C19_FsErrorStep]_vars

C19_Witness ==
  /\ lastCall # NoCall
  /\ lastCall.inLib /\ lastCall.src = 0
  /\ lastCall.outcome = "staterr"
  /\ lastCall.row # NoRow
  /\ events = << >>

\* the class the next merge step merges, "" if there is none
NextMerged ==
  IF phase = "merge" /\ mergeIndex < Len(compiledClasses)
       /\ cachedMeta[compiledClasses[mergeIndex + 1]] # NoMeta
  THEN compiledClasses[mergeIndex + 1] ELSE ""

\* a mixin among the classes the walk of C visits declares the function n
MixinSuppliesMember(C, t, n) ==
  \E s \in {C} \cup t.loaded : srcVer[s].type = "mixin" /\ DeclaresFunction(s, n)

MixinSuppliesProperty(C, t) ==
  \E s \in {C} \cup t.loaded : srcVer[s].type = "mixin" /\ DeclaresProperty(s)

\* C20: in the entity table of every class being merged, a member or
\* property that a visited mixin declares has mixin = true, whatever the
\* other classes that declare it and whichever is visited first
C20_MixinFlag ==
  NextMerged # "" =>
    LET C == NextMerged
        t == ClassEntities(cachedMeta[C])
    IN /\ (t.members["foo"] # NoInfo /\ MixinSuppliesMember(C, t, "foo"))
            => t.members["foo"].mixin
       /\ (t.properties["p"] # NoInfo /\ MixinSuppliesProperty(C, t))
            => t.properties["p"].mixin

\* the DB file exists and cannot be read or parsed
BadDbFile == dbFile # NoFile /\ dbFile.kind \in {"unreadable", "garbled"}

C18_Step ==
  /\ (phase = "closed" /\ BadDbFile /\ phase' # phase) => phase' = "crashed"
  /\ BadDbFile => dbFile' = dbFile
  /\ dbFile' # dbFile => dbFile' = [kind |-> "db", classInfo |-> db]
  /\ events' # events => phase = "external"

\* C18: with a DB file that exists and cannot be read or parsed open()
\* fails before any compile and the file is not overwritten; the file
\* changes only by saveDatabase writing the database in memory
C18_FailedLoadKeepsDb == [][C18_Step]_vars

\* the parts that hold: only saveDatabase writes the file, nothing is
\* compiled before open() has loaded, and a file that cannot be parsed is
\* left as it is
C18_OnlySaveWrites ==
  [][/\ dbFile' # dbFile => dbFile' = [kind |-> "db", classInfo |-> db]
     /\ events' # events => phase = "external"
     /\ (dbFile # NoFile /\ dbFile.kind = "garbled") => dbFile' = dbFile]_vars

\* a class or mixin among the classes the walk of C visits declares the
\* function n
ConcreteSupplier(C, t, n) ==
  \E s \in {C} \cup t.loaded : srcVer[s].type # "interface" /\ DeclaresFunction(s, n)

\* only interfaces among the visited classes declare the function n
InterfacesOnlySupply(C, t, n) ==
  /\ \E s \in {C} \cup t.loaded : srcVer[s].type = "interface" /\ DeclaresFunction(s, n)
  /\ ~ConcreteSupplier(C, t, n)

\* a visited class declares property p and p gets the accessor kind k
PropertyGives(C, t, k) ==
  \E s \in {C} \cup t.loaded : DeclaresProperty(s) /\ k \in AccessorsOf(srcVer[s].prop)

\* C21: in the merge of a class, an accessor name that a class or mixin
\* among the visited classes supplies as a function keeps its entry (it is
\* not a synthesized accessor, in the table and in the merged meta); a name
\* that only interfaces supply is replaced by the non-abstract accessor
C21_AccessorKeepsConcrete ==
  NextMerged # "" =>
    LET C == NextMerged
        t == ClassEntities(cachedMeta[C])
        after == UpdateMetaData(cachedMeta[C])
    IN \A k \in AccessorKinds :
         LET n == AccessorName[k] IN
           /\ ConcreteSupplier(C, t, n) =>
                /\ t.members[n] # NoInfo
                /\ t.members[n].property = ""
                /\ after.members[n] # NoEntity => after.members[n].property = ""
           /\ (InterfacesOnlySupply(C, t, n) /\ PropertyGives(C, t, k)) =>
                /\ t.members[n].property = k
                /\ ~t.members[n].abstract

\* the saves of a run are done, the callback is not yet invoked
SavesDone == phase = "save" /\ saveTodo = << >>

\* after a completed run that visited x and y only the source of x was
\* touched, and this run compiled x and found y fresh
S6(x, y) ==
  /\ SavesDone
  /\ OneTouched(x)
  /\ {x, y} \subseteq prev.classes
  /\ x \in SeqToSet(compiledClasses)
  /\ y \notin SeqToSet(compiledClasses)
  /\ db[y] # NoRow /\ db[y].populated

Refreshed(y) ==
  /\ y \in SeqToSet(metaWrites)
  /\ metaFile[y] # NoMeta
  /\ metaFile[y].content.descendants = CalcDescendants(y)

\* C22: when y extends x and only x is touched, the run that recompiles x
\* recomputes and saves the descendants of y although y is not recompiled
C22_DescendantRefreshed ==
  \A x, y \in Classes : (S6(x, y) /\ db[y].extends = x) => Refreshed(y)

\* C22, amended: the fixup refreshes the class that the recompiled class
\* extends (by its old row), not the classes that extend it
C22_AncestorRefreshed ==
  \A x, y \in Classes :
     (S6(x, y) /\ oldInfo[x] # NoRow /\ oldInfo[x].extends = y) => Refreshed(y)

C22_Witness ==
  \E x, y \in Classes :
     S6(x, y) /\ oldInfo[x] # NoRow /\ oldInfo[x].extends = y /\ Refreshed(y)

\* The libraries registered under a namespace
RegisteredFor(ns) == {j \in DOMAIN libraries : libraries[j].namespace = ns}

\* C23: after any sequence of addLibrary calls at most one library is
\* registered per namespace, and findLibrary(namespace) and
\* getLibraryFromClassname of a class of that namespace give the same library.
C23_NamespaceUniqueness ==
  /\ \A ns \in Namespaces : Cardinality(RegisteredFor(ns)) <= 1
  /\ \A c \in Classes :
       GetLibraryFromClassname(c) # NoLibrary =>
         GetLibraryFromClassname(c) = FindLibrary(ClassNamespace(c))

\* C23, second half alone: the two lookups agree
C23_LookupsAgree ==
  \A c \in Classes :
    GetLibraryFromClassname(c) # NoLibrary =>
      GetLibraryFromClassname(c) = FindLibrary(ClassNamespace(c))

\* C24: getTranslation never hands a Translation object to a caller before
\* the checkRead() of that object has completed, overlapping calls included.
C24_HandedAfterCheckRead == \A h \in handed : h.read

\* C24, the call that created the Translation: it resolves after checkRead
C24_CreatorStep ==
  [][\A id \in TranslationIds :
       (translations[id] = NoTranslation /\ translations'[id] # NoTranslation)
         => handed' = handed]_vars

\* The classes whose analyseClassEntities call is in progress
OnWalk == [j \in DOMAIN walk |-> walk[j].className]

\* C25: the ancestor walk detects re-entry: no analyseClassEntities call is
\* entered for a class while a call for that class is in progress, for every
\* inheritance graph, cyclic ones included.
C25_ReentryDetected ==
  \A j, k \in DOMAIN walk : OnWalk[j] = OnWalk[k] => j = k

\* C26: the merged meta of a class is a function of the inheritance graph
\* only: when a class is merged again over unchanged declarations, its
\* members, properties and abstract flag are those the earlier run wrote,
\* whichever classes are merged with it and whether its ancestors are merged
\* before it, after it, or loaded from disk already merged.
C26_MergeOfGraphOnly ==
  (NextMerged # "" /\ metaFile[NextMerged] # NoMeta) =>
    LET after == UpdateMetaData(cachedMeta[NextMerged])
        before == Merged(NextMerged)
    IN /\ after.members = before.members
       /\ after.properties = before.properties
       /\ after.abstract = before.abstract

\* The row of c is the minimal row {mtime, libraryName} that scanFile wrote
\* for a compile that failed in ClassFile.load
FailedRow(c) == db[c] # NoRow /\ ~db[c].populated /\ c \notin pending

\* C27: after a compile of a class fails in ClassFile.load, no getClassInfo
\* call without forceScan judges the class fresh and returns its minimal
\* row; the class stays stale until a compile of it succeeds.
C27_FailedStaysStale ==
  \A c \in Classes : FailedRow(c) => GetClassInfoOutcome(c, FALSE) # "cached"

NoDuplicates(s) == \A j, k \in DOMAIN s : s[j] = s[k] => j = k

IsPrefix(s, t) == Len(s) <= Len(t) /\ SubSeq(t, 1, Len(s)) = s

\* within a run the worklist only grows at its end, and a dispatch takes the
\* entry after the last one dispatched
C28_Step ==
  /\ NoDuplicates(classes')
  /\ classIndex' <= Len(classes')
  /\ runs' = runs =>
       /\ IsPrefix(classes, classes')
       /\ classIndex' \in {classIndex, classIndex + 1}
       /\ classIndex' = classIndex + 1 =>
            /\ outcome[classes[classIndex']] = ""
            /\ outcome'[classes[classIndex']] # "" \/ classes[classIndex'] \in pending'
  /\ phase' = "scan" => IsPrefix(Seeds, classes')

\* C28: the worklist of a run drains: no name is in it twice, the entries
\* are dispatched one by one in insertion order (the seeds, then the
\* dependencies as discovered), each once, and the scan ends.
C28_WorklistDrains ==
  /\ [][C28_Step]_vars
  /\ (phase = "scan") ~> (phase # "scan")

\* a run dispatched a discovered dependency after the seeds, over a cyclic
\* dependsOn graph, and its scan has ended
C28_Witness ==
  /\ phase = "merge"
  /\ classes = << "A", "B", "C" >>
  /\ classIndex = 3
  /\ db["C"] # NoRow
  /\ \E d \in DOMAIN db["C"].dependsOn : db["C"].dependsOn[d].name = "A"

\* the step enters analyseClassEntities for the meta that loadMetaData(c) gave
Loads(c) == c \in MetaClasses /\ visits'[c] = visits[c] + 1 /\ Len(walk') = Len(walk) + 1

\* C29: during the merge, loadMetaData of a class compiled in this run gives
\* the live meta of its ClassFile and does not read the class's meta file
\* (the cache entry of the class is not filled from disk); the synthetic
\* roots Object, Array and Error give no meta.
C29_LiveMetaShadowsDisk ==
  [][/\ \A c \in SeqToSet(compiledClasses) :
          /\ Loads(c) => LoadMetaData(c) = GetOuterClassMeta(c, srcVer[c], 1)
          /\ cachedMeta'[c] = cachedMeta[c]
     /\ \A r \in {"Object", "Array", "Error"} : LoadMetaData(r) = NoMeta]_vars

\* C29 for the classes whose ClassFile exposes a meta
C29_LiveMetaWhenExposed ==
  [][\A c \in SeqToSet(compiledClasses) :
       GetOuterClassMeta(c, srcVer[c], 1) # NoMeta =>
         /\ Loads(c) => LoadMetaData(c) = GetOuterClassMeta(c, srcVer[c], 1)
         /\ cachedMeta'[c] = cachedMeta[c]]_vars

\* C30: write-back materialises a property entry only for table properties
\* the class's own meta.properties lacks: every property entry the meta of
\* the class being merged declared keeps its check, async and refine fields,
\* whether a class, a mixin or an interface is merged.
C30_DeclaredPropertiesKept ==
  NextMerged # "" =>
    LET meta  == cachedMeta[NextMerged]
        after == UpdateMetaData(meta)
    IN \A n \in PropNames :
         meta.properties[n] # NoEntity =>
           /\ after.properties[n].check = meta.properties[n].check
           /\ after.properties[n].async = meta.properties[n].async
           /\ after.properties[n].refine = meta.properties[n].refine

\* C30 for the classes: the entries a class declares are kept
C30_ClassPropertiesKept ==
  (NextMerged # "" /\ cachedMeta[NextMerged].type = "class") =>
    LET meta  == cachedMeta[NextMerged]
        after == UpdateMetaData(meta)
    IN \A n \in PropNames :
         meta.properties[n] # NoEntity =>
           /\ after.properties[n].check = meta.properties[n].check
           /\ after.properties[n].async = meta.properties[n].async
           /\ after.properties[n].refine = meta.properties[n].refine

\* the entries of a meta that carry an appearsIn list naming class c
NamesItself(meta, c) ==
  \/ \E n \in MemberNames :
       meta.members[n] # NoEntity /\ c \in SeqToSet(meta.members[n].appearsIn)
  \/ \E n \in PropNames :
       meta.properties[n] # NoEntity /\ c \in SeqToSet(meta.properties[n].appearsIn)

\* C31: for every merged class C and every member or property in its meta,
\* the appearsIn list does not contain C: in the entity table of the class
\* being merged, in the meta the merge gives and in the meta files written.
C31_AppearsInExcludesSelf ==
  /\ NextMerged # "" =>
       LET C == NextMerged
           t == ClassEntities(cachedMeta[C])
       IN /\ \A n \in MemberNames :
               t.members[n] # NoInfo => C \notin SeqToSet(t.members[n].appearsIn)
          /\ \A n \in PropNames :
               t.properties[n] # NoInfo => C \notin SeqToSet(t.properties[n].appearsIn)
          /\ ~NamesItself(UpdateMetaData(cachedMeta[C]), C)
  /\ \A C \in MetaClasses : metaFile[C] # NoMeta => ~NamesItself(Merged(C), C)

\* a completed run wrote the meta of Sub, in which foo, declared by Sub and
\* by ancestors, lists the ancestors it appears in
C31_Witness ==
  /\ phase = "done"
  /\ metaFile["Sub"] # NoMeta
  /\ DeclaresFunction("Sub", "foo")
  /\ Merged("Sub").members["foo"].appearsIn # << >>
  /\ "Sub" \notin SeqToSet(Merged("Sub").members["foo"].appearsIn)

\* the ancestors of c, nearest first, walked superclass, then mixins, then
\* interfaces
RECURSIVE SuperFirstOrder(_)
RECURSIVE SuperFirstAll(_)
SuperFirstOrder(c) ==
  SuperFirstAll((IF srcVer[c].superClass # "" THEN << srcVer[c].superClass >> ELSE << >>)
                \o srcVer[c].mixins \o srcVer[c].interfaces)

SuperFirstAll(names) ==
  IF names = << >> THEN << >>
  ELSE << Head(names) >> \o SuperFirstOrder(Head(names)) \o SuperFirstAll(Tail(names))

\* C32: for a merged class C, the function foo it declares has
\* overriddenFrom = the nearest ancestor that declares foo when the
\* ancestors are walked superclass first, then mixins, then interfaces; so
\* when the superclass chain and an interface or mixin of C both declare
\* foo, overriddenFrom names the superclass-chain ancestor.
C32_SuperclassFirst ==
  phase = "done" =>
    \A C \in MetaClasses :
      (metaFile[C] # NoMeta /\ DeclaresFunction(C, "foo")) =>
         Merged(C).members["foo"].overriddenFrom =
           FirstOf(SuperFirstOrder(C), {a \in MetaClasses : DeclaresFunction(a, "foo")})

====
